---- MODULE Spec2Model ----
(***************************************************************************)
(* A model of the LanguageTool plugin for Sublime Text                     *)
(* (src/LanguageTool.py, src/LTServer.py).                                  *)
(*                                                                         *)
(* One view is modelled: its buffer, its selection, the regions the plugin  *)
(* registers under region keys, the per-view setting                       *)
(* "language_tool_problems", the user-scoped list of ignored rules, the    *)
(* quick panel, and the two threads of the plugin host: the UI thread,     *)
(* which runs the commands, the listener and the callbacks, and the async  *)
(* thread, which runs check_text.  Each thread is a stack of calls; a step *)
(* of a thread is one call of the host API that the other thread can       *)
(* observe, so the calls of a handler and of check_text interleave.  Text  *)
(* is a sequence of one-character strings.  A region is a pair of points   *)
(* [a, b]; regions registered under a key also carry the scope and the     *)
(* draw flags they were added with.                                        *)
(***************************************************************************)
EXTENDS Integers, Sequences, FiniteSets, TLC

VARIABLES
    buffer,     \* the view's text
    sel,        \* view.sel(): the regions of the selection, <<>> after clear()
    regions,    \* region key -> list of regions (view.get_regions(key))
    problems,   \* view setting "language_tool_problems"; None when erased
    ignored,    \* setting "ignored" of LanguageToolUser.sublime-settings
    pending,    \* check_text callbacks queued by sublime.set_timeout_async
    ui,         \* the UI thread: the calls of the handler it runs
    chk,        \* the async thread: the calls of the check_text it runs
    panel,      \* the quick panel (suggestions, ignored rules or languages) that is open
    last,       \* the last handler that ran, and what it found
    language,   \* view setting "language_tool_language"; NoValue when erased
    languages,  \* view setting "language_tool_languages"; None when not set
    conn,       \* one call of LTServer.getResponse / _connect and its outcome
    env         \* what the run does not change: the setting "ignored-scopes",
                \* the rules the server reports and the most matches it sends

vars == <<buffer, sel, regions, problems, ignored, pending, ui, chk, panel, last,
          language, languages, conn, env>>

----------------------------------------------------------------------------
(* Bounds of the model *)

MaxLen == 2          \* longest buffer
MaxMatches == 2      \* most matches in one server response
MaxIgnored == 3      \* longest list of ignored rules
MaxPending == 1      \* most check_text callbacks waiting in the async queue
MaxChanges == 1      \* most buffer changes between view.change_id() and the last
                     \* view.transform_region_from of one check_text
MaxInputs == 1       \* most handlers of the UI thread that run while one check_text runs
MaxQueue == 1        \* most callbacks of sublime.set_timeout that wait to run
MaxMatchLen == 1     \* longest span of a match
MaxLanguages == 2    \* most entries in the server's list of languages

Chars == {"a", "b"}

NoValue == "None"

\* An optional value: None, or Some(v)
None == [has |-> FALSE, val |-> <<>>]
Some(v) == [has |-> TRUE, val |-> v]

Min(x, y) == IF x <= y THEN x ELSE y

\* str(index) of a small index
Str(i) == <<"0", "1", "2", "3", "4", "5", "6", "7", "8", "9">>[i + 1]

----------------------------------------------------------------------------
(* sublime.Region *)

Region(a, b) == [a |-> a, b |-> b]

Begin(r) == Min(r.a, r.b)
End(r) == IF r.a >= r.b THEN r.a ELSE r.b

\* Region.empty()
Empty(r) == r.a = r.b

\* Region.contains(Region)
Contains(r1, r2) == Begin(r1) <= Begin(r2) /\ End(r2) <= End(r1)

\* the points of a registered region, without scope and flags
Span(r) == Region(r.a, r.b)

----------------------------------------------------------------------------
(* The view: text and region tracking of the host editor *)

\* view.substr(region)
Substr(buf, r) == SubSeq(buf, Min(Begin(r), Len(buf)) + 1, Min(End(r), Len(buf)))

\* A change replaces the text in [s, e) by n characters.
Change(s, e, n) == [s |-> s, e |-> e, n |-> n]

\* the buffer after replacing [s, e) by text
Splice(buf, s, e, text) == SubSeq(buf, 1, s) \o text \o SubSeq(buf, e + 1, Len(buf))

\* Where the editor moves a point of a non-empty replaced range [s, e).
MovePoint(x, c) ==
    IF x <= c.s THEN x
    ELSE IF x >= c.e THEN x + c.n - (c.e - c.s)
    ELSE Min(x, c.s + c.n)

\* Where the editor moves a region [lo, hi] (lo <= hi) when change c is made:
\* text inserted at the start of a region moves the region, text inserted at
\* its end does not extend it, an empty region moves like a caret, and a
\* region that is replaced exactly covers the new text.
MoveSpan(lo, hi, c) ==
    IF c.s = c.e
    THEN IF lo = hi
         THEN (IF lo >= c.s THEN Region(lo + c.n, hi + c.n) ELSE Region(lo, hi))
         ELSE Region(IF lo >= c.s THEN lo + c.n ELSE lo,
                     IF hi > c.s THEN hi + c.n ELSE hi)
    ELSE Region(MovePoint(lo, c), MovePoint(hi, c))

\* a region after change c, keeping its direction
Track(r, c) ==
    LET m == MoveSpan(Begin(r), End(r), c)
    IN  IF r.a <= r.b THEN Region(m.a, m.b) ELSE Region(m.b, m.a)

\* every registered region after change c
TrackAll(regs, c) ==
    [k \in DOMAIN regs |->
        [i \in DOMAIN regs[k] |->
            LET t == Track(Span(regs[k][i]), c)
            IN  [regs[k][i] EXCEPT !.a = t.a, !.b = t.b]]]

RECURSIVE TransformFrom(_, _)
\* view.transform_region_from(region, change_id): the region carried through
\* the changes made since change_id
TransformFrom(r, log) ==
    IF log = <<>> THEN r ELSE TransformFrom(Track(r, Head(log)), Tail(log))

\* view.text_point(row, col): the buffers of the model hold one line, and
\* row 0 starts at point 0
TextPoint(row, col) == col

\* The host keeps the regions and the selection of a view inside its
\* buffer: a point after the end of the text is put at the end.
Clamp(r, buf) == Region(Min(r.a, Len(buf)), Min(r.b, Len(buf)))

MinOf(S) == CHOOSE i \in S : \A j \in S : i <= j
MaxOf(S) == CHOOSE i \in S : \A j \in S : i >= j

\* view.sel().add(region): the selection is kept in the order of the
\* buffer, and the regions the new one intersects are merged with it; a
\* caret at an end of a region counts as inside it
sel_add(s, r) ==
    LET meets(q) == IF Empty(q) \/ Empty(r)
                    THEN Begin(q) <= End(r) /\ Begin(r) <= End(q)
                    ELSE Begin(q) < End(r) /\ Begin(r) < End(q)
        apart(q) == ~meets(q)
        joined == SelectSeq(s, meets)
        m == IF joined = <<>> THEN r
             ELSE Region(MinOf({Begin(r)} \cup {Begin(joined[i]) : i \in DOMAIN joined}),
                         MaxOf({End(r)} \cup {End(joined[i]) : i \in DOMAIN joined}))
        left(q) == apart(q) /\ Begin(q) < Begin(m)
        right(q) == apart(q) /\ Begin(q) >= Begin(m)
    IN  SelectSeq(s, left) \o <<m>> \o SelectSeq(s, right)

----------------------------------------------------------------------------
(* Settings (LanguageTool.sublime-settings) and the syntax of the view *)

\* "highlight-scope"
HighlightScope == "comment"


\* view.scope_name(point), split into scope names: in the syntax of the
\* model the character "b" is a line comment
scope_name(buf, pt) ==
    IF pt < Len(buf) /\ buf[pt + 1] = "b"
    THEN << <<"text", "plain">>, <<"comment", "line">> >>
    ELSE << <<"text", "plain">> >>

\* fnmatch.fnmatch(name, pattern): a pattern "p.*" asks for the atoms of p,
\* the dot and any rest, so a name that is p alone does not match
fnmatch(name, pat) ==
    IF pat # <<>> /\ pat[Len(pat)] = "*"
    THEN /\ Len(name) >= Len(pat)
         /\ SubSeq(name, 1, Len(pat) - 1) = SubSeq(pat, 1, Len(pat) - 1)
    ELSE name = pat

\* cross_match(list1, list2, fnmatch.fnmatch)
cross_match(list1, list2) ==
    \E i \in DOMAIN list1 : \E j \in DOMAIN list2 : fnmatch(list1[i], list2[j])

----------------------------------------------------------------------------
(* Matches of the server and problems *)

\* The rules of the modelled server: id, category, message, replacements.
Rule1 == [id |-> "R1", category |-> [name |-> "C1"], message |-> "m1",
          replacements |-> << [value |-> <<"b">>] >>]
Rule2 == [id |-> "R2", category |-> [name |-> "C1"], message |-> "m2",
          replacements |-> <<>>]
Rule3 == [id |-> "R3", category |-> [name |-> "C2"], message |-> "m3",
          replacements |-> << [value |-> <<"b">>], [value |-> <<"a", "a">>] >>]
ServerRules == {Rule1, Rule2, Rule3}

\* a match object of the server's JSON response
Match(off, len, ru) ==
    [offset |-> off, length |-> len, message |-> ru.message,
     replacements |-> ru.replacements,
     rule |-> [id |-> ru.id, category |-> ru.category]]

\* rule.get("urls", [])
RuleUrls(rule) == IF "urls" \in DOMAIN rule THEN rule.urls ELSE <<>>

parse_match(match) ==
    [category |-> match.rule.category.name,
     message |-> match.message,
     replacements |-> [i \in DOMAIN match.replacements |-> match.replacements[i].value],
     rule |-> match.rule.id,
     urls |-> [i \in DOMAIN RuleUrls(match.rule) |-> RuleUrls(match.rule)[i].value],
     offset |-> match.offset,
     length |-> match.length]

\* shift_offset that takes the offsets of the server as counted from 1
ShiftOneMore(problem, shift) == [problem EXCEPT !.offset = @ + shift + 1]

shift_offset(problem, shift) == [problem EXCEPT !.offset = @ + shift]

\* compose(shifter, parse_match) of check_text
get_problem(match, shift) == shift_offset(parse_match(match), shift)

\* settings.get("language_tool_problems", []): the setting is None when it
\* is not set, Some(list) otherwise
ProblemList(probs) == IF probs.has THEN probs.val ELSE <<>>

\* view.get_regions(problem["regionKey"])
get_regions(regs, key) == regs[key]

HasRegion(regs, p) == get_regions(regs, p.regionKey) # <<>>

\* is_problem_solved without the comparison of the contents
SolvedWhenEmpty(regs, buf, p) ==
    LET region == get_regions(regs, p.regionKey)[1]
    IN  Empty(region)

is_problem_solved(regs, buf, p) ==
    LET region == get_regions(regs, p.regionKey)[1]
    IN  Empty(region) \/ Substr(buf, region) # p.orgContent

is_equal(prob1, prob2) ==
    /\ prob1.category = prob2.category
    /\ prob1.orgContent = prob2.orgContent

\* get_equal_problems(problems, x): the indices of the problems equal to x,
\* in the order of the list
get_equal_problems(probs, x) ==
    LET equal(i) == is_equal(probs[i], x)
    IN  SelectSeq([i \in DOMAIN probs |-> i], equal)

\* view.add_regions(key, [region], scope, "", flags)
add_regions(regs, key, rl, scope, flags) ==
    [k \in DOMAIN regs |->
        IF k = key
        THEN [i \in DOMAIN rl |->
                 [a |-> rl[i].a, b |-> rl[i].b, scope |-> scope, flags |-> flags]]
        ELSE regs[k]]

\* view.erase_regions(key)
erase_regions(regs, key) == [k \in DOMAIN regs |-> IF k = key THEN <<>> ELSE regs[k]]
----------------------------------------------------------------------------
(* LTServer.py: the transport *)

\* str.join(",", disabledRules): the ids with a "," between two of them
RECURSIVE Join(_)
Join(ids) ==
    IF Len(ids) <= 1 THEN ids
    ELSE <<Head(ids), ",">> \o Join(Tail(ids))

\* data.encode("utf8")
Encode(data) == [utf8 |-> data]

\* the payload of getResponse with the credentials added when either the
\* username or the API key is set
PayloadWithEither(data, lang, disabledRules, username, apikey) ==
    LET base == ("language" :> lang) @@ ("data" :> Encode(data))
                @@ ("User-Agent" :> <<"sublime">>)
                @@ ("disabledRules" :> Join(disabledRules))
    IN  IF Len(username) > 0 \/ Len(apikey) > 0
        THEN base @@ ("username" :> username) @@ ("apiKey" :> apikey)
        ELSE base

\* the payload dict of getResponse: a function from its keys
getResponsePayload(data, lang, disabledRules, username, apikey) ==
    LET base == ("language" :> lang) @@ ("data" :> Encode(data))
                @@ ("User-Agent" :> <<"sublime">>)
                @@ ("disabledRules" :> Join(disabledRules))
    IN  IF Len(username) > 0 /\ Len(apikey) > 0
        THEN base @@ ("username" :> username) @@ ("apiKey" :> apikey)
        ELSE base

\* What can happen in urlopen(server, payload, timeout=60).read() and
\* json.loads: the events of one call.
\*   ok            a non-empty body that decodes to a JSON object
\*   empty         an empty body
\*   http          the server answers with an error status
\*   bad_scheme    the URL names a scheme that urlopen does not know and
\*                 urljoin does not join to ("foo://h/v2/check",
\*                 "localhost:8081/v2/check")
\*   unknown_type  urlopen takes what stands before the first ":" of the URL
\*                 for a type it does not know, and urljoin joins to the URL
\*                 ("127.0.0.1:8081/v2/check", "svn://h/v2/check")
\*   no_scheme     the URL has no scheme ("h/v2/check")
\*   conn_timeout  the connection is not established within the timeout
\*   read_timeout  the response is not read within the timeout
\*   refused       the connection is refused
\*   reset         the connection is reset while the body is read
FailureEvents == {"http", "bad_scheme", "unknown_type", "no_scheme",
                  "conn_timeout", "read_timeout", "refused", "reset"}

\* The exception urlopen raises for a failure: urllib wraps the OSError of
\* the connect/send phase (a timeout included) in URLError.
RaisedClass(event) ==
    CASE event = "http"         -> "HTTPError"
      [] event = "bad_scheme"   -> "URLError"
      [] event = "unknown_type" -> "URLError"
      [] event = "no_scheme"    -> "ValueError"
      [] event = "conn_timeout" -> "URLError"
      [] event = "read_timeout" -> "socket.timeout"
      [] event = "refused"      -> "URLError"
      [] event = "reset"        -> "ConnectionResetError"

\* the base classes of an exception class, itself included
Bases(cls) ==
    CASE cls = "HTTPError"            -> {"HTTPError", "URLError", "OSError", "Exception"}
      [] cls = "URLError"             -> {"URLError", "OSError", "Exception"}
      [] cls = "socket.timeout"       -> {"socket.timeout", "OSError", "Exception"}
      [] cls = "ConnectionResetError" -> {"ConnectionResetError", "OSError", "Exception"}
      [] cls = "ValueError"           -> {"ValueError", "Exception"}

\* the except clauses of _connect, in order
ExceptClauses == <<"HTTPError", "URLError", "socket.timeout", "OSError">>

\* the index of the clause that handles an exception of class cls, 0 if none
HandlingClause(cls) ==
    LET hit == {i \in DOMAIN ExceptClauses : ExceptClauses[i] \in Bases(cls)}
    IN  IF hit = {} THEN 0 ELSE CHOOSE i \in hit : \A j \in hit : i <= j

\* str(e.code) of the status codes of the model
StrCode(code) == IF code = 500 THEN "500" ELSE IF code = 404 THEN "404" ELSE "?"

\* the msg a handled exception leaves; e is the HTTP error (code, reason, body)
ConnectMsg(clause, e) ==
    CASE clause = 1 -> <<StrCode(e.code), " ", e.reason, "\n\n", e.body>>
      [] clause = 2 -> <<"Invalid URL">>
      [] clause = 3 -> <<"Connection timeout">>
      [] clause = 4 -> <<"Unknown error">>

\* _connect(server, payload): [result, raised, timeouts]; result is the
\* decoded response or None, raised the class of an exception that leaves
\* _connect (NoValue if none does), timeouts the callbacks given to
\* sublime.set_timeout: the msg each will show, None when msg was never
\* assigned
connect(event, body, e) ==
    IF event = "ok"
    THEN [result |-> Some(body), raised |-> NoValue, timeouts |-> <<>>]
    ELSE IF event = "empty"
    THEN [result |-> None, raised |-> NoValue, timeouts |-> <<None>>]
    ELSE LET clause == HandlingClause(RaisedClass(event))
         IN  IF clause = 0
             THEN [result |-> None, raised |-> RaisedClass(event), timeouts |-> <<>>]
             ELSE [result |-> None, raised |-> NoValue,
                   timeouts |-> <<Some(ConnectMsg(clause, e))>>]

\* what getResponse returns for the result of _connect: `if response` is
\* false for None and for an empty JSON object
getResponseResult(response) ==
    IF (~response.has) \/ DOMAIN response.val = {} THEN None
    ELSE Some(response.val.matches)

\* the payload dict of addWordToDict
addWordPayload(word, username, apikey) ==
    ("word" :> Encode(word)) @@ ("username" :> username) @@ ("apiKey" :> apikey)

\* what addWordToDict returns for the result of _connect
addWordResult(response) ==
    IF (~response.has) \/ DOMAIN response.val = {} THEN None
    ELSE Some(response.val.added)

\* urljoin(server, path) of getLanguages and addWordToDict, by what it does
\* to the call: for a server URL with a scheme urljoin does not join to, it
\* returns the path alone, a URL without scheme; every other server URL
\* keeps what stands before its path, and with it the event of the call
urljoin(event) == IF event = "bad_scheme" THEN "no_scheme" ELSE event

\* the event of a call: getResponse opens the server URL as it is
CallEvent(call, event) == IF call = "getResponse" THEN event ELSE urljoin(event)

\* _error(msg): the text given to sublime.error_message
error_text(msg) == <<"LanguageTool Server Error:\n">> \o msg


\* the keys of the problems ignore_problem is called for on the ignore
\* path, in the order of get_equal_problems
ignored_keys(ps, problem) ==
    LET eq == get_equal_problems(ps, problem)
    IN  [k \in DOMAIN eq |-> ps[eq[k]].regionKey]

\* the keys of ignoredProblems, the problems of a rule, in list order
rule_keys(ps, id) ==
    LET of_rule(p) == p.rule = id
        ignoredProblems == SelectSeq(ps, of_rule)
    IN  [i \in DOMAIN ignoredProblems |-> ignoredProblems[i].regionKey]

\* load_ignored_rules() / save_ignored_rules(ignored): the setting "ignored"
load_ignored_rules(ign) == ign
save_ignored_rules(ign) == ign

\* ignored_ids of check_text
ignored_ids(ign) == [i \in DOMAIN ign |-> ign[i].id]

----------------------------------------------------------------------------
(* get_text and the functions check_text defines *)

\* sublime.score_selector(scope, spelling_selector) of a token; the tokens
\* of the model are single characters, and comments are not spell-checked
SpellingScore(ch) == IF ch = "b" THEN 0 ELSE 1

\* view.extract_tokens_with_scopes(check_region): the span of each token
\* and the score of its scope
extract_tokens_with_scopes(buf, r) ==
    LET lo == Min(Begin(r), Len(buf))
    IN  [k \in 1..(Min(End(r), Len(buf)) - lo) |->
            [span |-> Region(lo + k - 1, lo + k), type |-> SpellingScore(buf[lo + k])]]

\* chunks.append({type_name: current_chunk}) if current_chunk
AppendChunk(chunks, current_chunk, current_type) ==
    IF current_chunk # <<>>
    THEN Append(chunks, (IF current_type = 0 THEN "markup" ELSE "text") :> current_chunk)
    ELSE chunks

\* one turn of the loop of get_text, for a token of type chunk_type whose
\* text view.substr(span) gave; current_type -1 stands for None
get_text_token(st, text, chunk_type) ==
    IF chunk_type = st.current_type
    THEN [st EXCEPT !.current_chunk = @ \o text]
    ELSE [chunks |-> AppendChunk(st.chunks, st.current_chunk, st.current_type),
          current_chunk |-> text,
          current_type |-> chunk_type]

\* the end of get_text: json.dumps({"annotation": chunks})
get_text(st) == [annotation |-> AppendChunk(st.chunks, st.current_chunk, st.current_type)]

RECURSIVE ChunksText(_)
\* the text the server reads from an annotation: its chunks in order
ChunksText(chunks) ==
    IF chunks = <<>> THEN <<>>
    ELSE LET ch == Head(chunks)
         IN  ch[CHOOSE k \in DOMAIN ch : TRUE] \o ChunksText(Tail(chunks))

\* the matches a server may report for a text of n characters: non-empty
\* spans of that text
AllMatches(n) ==
    {Match(off, len, ru) : off \in 0..n, len \in 1..MaxMatchLen, ru \in env.rules}

\* the "matches" arrays a response may hold
Responses(n) ==
    UNION {[1..k -> {m \in AllMatches(n) : m.offset + m.length <= n}] : k \in 0..env.answers}

\* get_region(problem) of check_text
get_region(p, log) == TransformFrom(Region(p.offset, p.offset + p.length), log)

\* inside(problem) of check_text
inside(p, check_region, log) == Contains(check_region, get_region(p, log))

\* is_ignored(problem) of check_text
is_ignored(p, buf) == cross_match(scope_name(buf, p.offset), env.ignored_scopes)

\* the problem add_highlight_region(region_key, problem) leaves
highlighted(p, orgContent, region_key) ==
    [category |-> p.category, message |-> p.message,
     replacements |-> p.replacements, rule |-> p.rule, urls |-> p.urls,
     offset |-> p.offset, length |-> p.length,
     orgContent |-> orgContent,
     regionKey |-> region_key]

----------------------------------------------------------------------------
(* The calls of a thread *)

\* A call is a frame: the function (proc), the statement it stands before
\* (pc), whether the host started it as a command, a listener or a callback
\* (cmd), and its locals (v).  pc is the line of the statement in
\* src/LanguageTool.py.  A statement with pc > 0 makes a call of the host
\* API that reads or writes what the other thread writes or reads: it is a
\* step of its own.  A statement with pc < 0 (the line, negated) makes no
\* such call: it runs with the step before it.  pc = 0 is the return of
\* the function.
Frame(proc, pc, cmd, v) == [proc |-> proc, pc |-> pc, cmd |-> cmd, v |-> v]

\* What a statement does: the call goes on with frame f ("go"), calls x
\* ("call"), returns ("ret") or raises exception x ("raise"); w holds what
\* it writes, by the name of the variable.  The names path and found are
\* notes for the record of the handler (last).
NoWrites == [none |-> TRUE]
Written(w, name, old) == IF name \in DOMAIN w THEN w[name] ELSE old

Go(f, pc, w) == [k |-> "go", f |-> [f EXCEPT !.pc = pc], x |-> NoValue, w |-> w]
Call(f, pc, g, w) == [k |-> "call", f |-> [f EXCEPT !.pc = pc], x |-> g, w |-> w]
Return(f, w) == [k |-> "ret", f |-> f, x |-> NoValue, w |-> w]
Raise(f, exc) == [k |-> "raise", f |-> f, x |-> exc, w |-> NoWrites]

\* the frames of the calls the model makes
MoveCaret(i, j) == Frame("move_caret", 24, FALSE, [i |-> i, j |-> j])
SelectProblem(p) == Frame("select_problem", 29, FALSE, [problem |-> p])
ClearRegion(key) == Frame("clear_region", 304, FALSE, [region_key |-> key, r |-> Region(0, 0)])
IgnoreProblem(key) == Frame("ignore_problem", -311, FALSE, [regionKey |-> key])
\* recompute_highlights(view); cmd when the host calls it as on_modified
RecomputeHighlights(cmd) ==
    Frame("recompute_highlights", 572, cmd,
          [problems |-> <<>>, i |-> 0, rL |-> <<>>, regionScope |-> ""])
\* view.run_command("goto_next_language_problem", {"jump_forward": ...})
GotoNextLanguageProblem(jump_forward) ==
    Frame("goto_next_language_problem", 105, TRUE,
          [jump_forward |-> jump_forward, problems |-> <<>>, sel |-> Region(0, 0),
           i |-> 0, r |-> Region(0, 0)])

(* move_caret(view, i, j) *)
move_caret(f) ==
    LET target == TextPoint(0, f.v.i)
    IN  CASE f.pc = 24 -> Go(f, 25, [sel |-> <<>>])
          [] f.pc = 25 ->
                Return(f, [sel |-> sel_add(sel, Clamp(Region(target, target + f.v.j - f.v.i),
                                                      buffer))])

(* select_problem(view, problem); show_at_center and show_problem change
   nothing of the model *)
select_problem(f) ==
    LET rl == get_regions(regions, f.v.problem.regionKey)
    IN  CASE f.pc = 29 ->
                IF rl = <<>> THEN Raise(f, "IndexError")
                ELSE Call(f, 0, MoveCaret(rl[1].a, rl[1].b), NoWrites)

(* GotoNextLanguageProblemCommand.run *)
goto_next_language_problem(f) ==
    LET ps == f.v.problems
        i == f.v.i
        more == IF f.v.jump_forward THEN i < Len(ps) ELSE i > 1
        next == IF more
                THEN Go([f EXCEPT !.v.i = IF f.v.jump_forward THEN i + 1 ELSE i - 1],
                        110, NoWrites)
                ELSE Return(f, NoWrites)
    IN  CASE f.pc = 105 ->
                IF Len(ProblemList(problems)) > 0
                THEN Go([f EXCEPT !.v.problems = ProblemList(problems)], 107, NoWrites)
                ELSE Return(f, NoWrites)
          [] f.pc = 107 ->
                IF sel = <<>> THEN Raise(f, "IndexError")
                ELSE Go([f EXCEPT !.v.sel = sel[1],
                                  !.v.i = IF f.v.jump_forward THEN 1 ELSE Len(ps)],
                        110, NoWrites)
          [] f.pc = 110 ->
                IF get_regions(regions, ps[i].regionKey) = <<>> THEN Raise(f, "IndexError")
                ELSE Go([f EXCEPT !.v.r = Span(get_regions(regions, ps[i].regionKey)[1])],
                        111, NoWrites)
          [] f.pc = 111 ->
                IF ~HasRegion(regions, ps[i]) THEN Raise(f, "AssertionError")
                ELSE IF /\ ~is_problem_solved(regions, buffer, ps[i])
                        /\ IF f.v.jump_forward THEN Begin(f.v.sel) < f.v.r.a
                           ELSE f.v.r.a < Begin(f.v.sel)
                THEN Call(f, 0, SelectProblem(ps[i]), [found |-> i])
                ELSE next

(* SelectProblemAtCursorCommand.run *)
select_problem_at_cursor(f) ==
    LET ps == f.v.problems
        i == f.v.i
        again == [f EXCEPT !.v.i = i + 1]
    IN  CASE f.pc = 93 ->
                IF Len(ProblemList(problems)) > 0
                THEN Go([f EXCEPT !.v.problems = ProblemList(problems)], 95, NoWrites)
                ELSE Return(f, NoWrites)
          [] f.pc = 95 ->
                IF sel = <<>> THEN Raise(f, "IndexError")
                ELSE Go([f EXCEPT !.v.sel = sel[1], !.v.i = 1], 97, NoWrites)
          [] f.pc = 97 ->
                IF get_regions(regions, ps[i].regionKey) = <<>> THEN Raise(f, "IndexError")
                ELSE Go([f EXCEPT !.v.r = Span(get_regions(regions, ps[i].regionKey)[1])],
                        98, NoWrites)
          [] f.pc = 98 ->
                IF ~HasRegion(regions, ps[i]) THEN Raise(f, "AssertionError")
                ELSE IF /\ ~is_problem_solved(regions, buffer, ps[i])
                        /\ f.v.r.a < Begin(f.v.sel)
                        /\ Begin(f.v.sel) < f.v.r.b
                THEN Call(again, IF i < Len(ps) THEN 97 ELSE 0, SelectProblem(ps[i]),
                          [found |-> i])
                ELSE IF i < Len(ps) THEN Go(again, 97, NoWrites)
                ELSE Return(f, NoWrites)

(* recompute_highlights(view) *)
recompute_highlights(f) ==
    LET ps == f.v.problems
        i == f.v.i
        p == ps[i]
        next(w) == IF i < Len(ps) THEN Go([f EXCEPT !.v.i = i + 1], 576, w)
                   ELSE Return(f, w)
    IN  CASE f.pc = 572 ->
                IF ProblemList(problems) = <<>> THEN Return(f, NoWrites)
                ELSE Go([f EXCEPT !.v.problems = ProblemList(problems), !.v.i = 1],
                        576, NoWrites)
          [] f.pc = 576 ->
                IF get_regions(regions, p.regionKey) # <<>>
                THEN Go([f EXCEPT !.v.rL = get_regions(regions, p.regionKey)], 578, NoWrites)
                ELSE next(NoWrites)
          [] f.pc = 578 ->
                IF ~HasRegion(regions, p) THEN Raise(f, "AssertionError")
                ELSE Go([f EXCEPT !.v.regionScope =
                                      IF is_problem_solved(regions, buffer, p) THEN ""
                                      ELSE HighlightScope],
                        579, NoWrites)
          [] f.pc = 579 ->
                next([regions |-> add_regions(regions, p.regionKey, f.v.rL,
                                              f.v.regionScope, "DRAW_OUTLINED")])

(* ClearLanguageProblemsCommand.run *)
clear_language_problems(f) ==
    LET ps == f.v.problems
        i == f.v.i
    IN  CASE f.pc = 129 ->
                IF ProblemList(problems) = <<>> THEN Return(f, NoWrites)
                ELSE Go([f EXCEPT !.v.problems = ProblemList(problems), !.v.i = 1],
                        132, [found |-> Len(ProblemList(problems))])
          [] f.pc = 132 ->
                Go([f EXCEPT !.v.i = i + 1], IF i < Len(ps) THEN 132 ELSE 133,
                   [regions |-> erase_regions(regions, ps[i].regionKey)])
          [] f.pc = 133 ->
                Call(f, 135, RecomputeHighlights(FALSE), [problems |-> None])
          [] f.pc = 135 ->
                IF sel = <<>> THEN Raise(f, "IndexError")
                ELSE Go([f EXCEPT !.v.caretPos = End(sel[1])], 136, NoWrites)
          [] f.pc = 136 ->
                Call(f, 0, MoveCaret(f.v.caretPos, f.v.caretPos), [sel |-> <<>>])

(* clear_region(view, region_key) *)
clear_region(f) ==
    LET rl == get_regions(regions, f.v.region_key)
        dummyRg == Region(f.v.r.a, f.v.r.a)
    IN  CASE f.pc = 304 ->
                IF rl = <<>> THEN Raise(f, "IndexError")
                ELSE Go([f EXCEPT !.v.r = Span(rl[1])], 307, NoWrites)
          [] f.pc = 307 ->
                Return(f, [regions |-> add_regions(regions, f.v.region_key, <<dummyRg>>,
                                                   HighlightScope, "DRAW_OUTLINED")])

(* ignore_problem(p, v, edit): clear_region, then the dummy edit
   v.insert(edit, v.size(), "").  Whether the insertion of no text counts
   as a modification is the host's: a host that reports it calls
   on_modified (env.dummy_edit_modifies), another one does not.  No text
   moves, so every region stays where it is. *)
ignore_problem(f) ==
    CASE f.pc = -311 -> Call(f, -312, ClearRegion(f.v.regionKey), NoWrites)
      [] f.pc = -312 ->
            IF env.dummy_edit_modifies THEN Call(f, 0, RecomputeHighlights(TRUE), NoWrites)
            ELSE Return(f, NoWrites)

\* The view v (its buffer, regions and selection, and the changes edits
\* made to it by the command that runs) after the host put text in the
\* place of [c.s, c.e): the regions and the selection move with the text.
Edited(v, c, text) ==
    [buffer |-> Splice(v.buffer, c.s, c.e, text),
     regions |-> TrackAll(v.regions, c),
     sel |-> [k \in DOMAIN v.sel |-> Track(v.sel[k], c)],
     edits |-> Append(v.edits, c)]

RECURSIVE insert(_, _, _)
\* view.run_command("insert", {"characters": text}) from the k-th region of
\* the selection on: the text is put in the place of every region of the
\* selection, in the order of the buffer, and each caret stands after its
\* text
insert(v, k, text) ==
    IF k > Len(v.sel) THEN v
    ELSE LET c == Change(Begin(v.sel[k]), End(v.sel[k]), Len(text))
             e == Edited(v, c, text)
         IN  insert([e EXCEPT !.sel = [j \in DOMAIN v.sel |->
                                         IF j < k THEN v.sel[j]
                                         ELSE IF j = k THEN Region(c.s + c.n, c.s + c.n)
                                         ELSE e.sel[j]]],
                    k + 1, text)

(* MarkLanguageProblemSolvedCommand.run and correct_problem.  The notes
   tell the path: "none", "ignore" (apply_fix false), "ignore, no
   replacements" (apply_fix true), "fix" and "fix of a solved problem",
   "panel"; found is the index of the problem of the selection. *)
mark_language_problem_solved(f) ==
    LET ps == f.v.problems
        i == f.v.i
        rl == get_regions(regions, ps[i].regionKey)
        problem == f.v.problem
        replacements == ps[i].replacements
        text == problem.replacements[1]
        c == Change(Begin(f.v.region), End(f.v.region), Len(text))
    IN  CASE f.pc = 147 -> Go([f EXCEPT !.v.problems = ProblemList(problems)], 148, NoWrites)
          [] f.pc = 148 ->
                IF sel = <<>> THEN Raise(f, "IndexError")
                ELSE IF ps = <<>> THEN Return(f, [path |-> "none"])
                ELSE Go([f EXCEPT !.v.selected_region = sel[1], !.v.i = 1], 152, NoWrites)
          [] f.pc = 152 ->
                IF rl = <<>> THEN Raise(f, "IndexError")
                ELSE IF Span(rl[1]) # f.v.selected_region
                THEN (IF i < Len(ps) THEN Go([f EXCEPT !.v.i = i + 1], 152, NoWrites)
                      ELSE Return(f, [path |-> "none"]))
                ELSE IF f.v.apply_fix /\ replacements # <<>>
                THEN (IF Len(replacements) > 1
                      THEN Return(f, [panel |-> [kind |-> "suggest", problem |-> <<ps[i]>>,
                                                  items |-> replacements],
                                      path |-> "panel", found |-> i])
                      ELSE Go([f EXCEPT !.v.problem = ps[i]], 190,
                              [path |-> IF is_problem_solved(regions, buffer, ps[i])
                                        THEN "fix of a solved problem" ELSE "fix",
                               found |-> i]))
                ELSE Go([f EXCEPT !.v.problem = ps[i], !.v.next_caret_pos = rl[1].a,
                                  !.v.keys = ignored_keys(ps, ps[i]), !.v.j = 1],
                        -170,
                        [path |-> IF f.v.apply_fix THEN "ignore, no replacements"
                                  ELSE "ignore",
                         found |-> i])
          [] f.pc = -170 ->
                IF f.v.j <= Len(f.v.keys)
                THEN Call([f EXCEPT !.v.j = @ + 1], -170, IgnoreProblem(f.v.keys[f.v.j]),
                          NoWrites)
                ELSE Call(f, -173, MoveCaret(f.v.next_caret_pos, f.v.next_caret_pos),
                          NoWrites)
          [] f.pc = -173 -> Call(f, 0, GotoNextLanguageProblem(TRUE), NoWrites)
          [] f.pc = 190 ->
                IF get_regions(regions, problem.regionKey) = <<>>
                THEN Raise(f, "IndexError")
                ELSE Go([f EXCEPT !.v.region =
                                      Span(get_regions(regions, problem.regionKey)[1])],
                        191, NoWrites)
          [] f.pc = 191 ->
                Call([f EXCEPT !.v.next_caret_pos = f.v.region.a + Len(text)], -177,
                     RecomputeHighlights(TRUE),
                     Edited([buffer |-> buffer, regions |-> regions, sel |-> sel,
                             edits |-> <<>>], c, text))
          [] f.pc = -177 -> Call(f, -178, ClearRegion(problem.regionKey), NoWrites)
          [] f.pc = -178 ->
                Call(f, -179, MoveCaret(f.v.next_caret_pos, f.v.next_caret_pos), NoWrites)
          [] f.pc = -179 -> Call(f, 0, GotoNextLanguageProblem(TRUE), NoWrites)

(* callback_fun(i) of correct_problem: choose_suggestion, then
   clear_and_advance, which clears the region and then reads
   next_caret_pos, a variable of correct_problem that was never assigned on
   this path.  The command insert puts the text in the place of every
   region of the selection; with no selection it inserts nothing. *)
callback_fun(f) ==
    LET p == f.v.problem
        rl == get_regions(regions, p.regionKey)
        text == f.v.replacements[f.v.choice + 1]
    IN  CASE f.pc = -184 ->
                IF f.v.choice # -1 THEN Go(f, 198, NoWrites)
                ELSE Call(f, -177, SelectProblem(p), NoWrites)
          [] f.pc = 198 ->
                IF rl = <<>> THEN Raise(f, "IndexError")
                ELSE Go([f EXCEPT !.v.c = rl[1].a + Len(text)], 199, NoWrites)
          [] f.pc = 199 ->
                IF sel = <<>> THEN Go(f, -201, NoWrites)
                ELSE Call(f, -201, RecomputeHighlights(TRUE),
                          insert([buffer |-> buffer, regions |-> regions, sel |-> sel,
                                  edits |-> <<>>], 1, text))
          [] f.pc = -201 -> Call(f, -202, MoveCaret(f.v.c, f.v.c), NoWrites)
          [] f.pc = -202 -> Call(f, -177, GotoNextLanguageProblem(TRUE), NoWrites)
          [] f.pc = -177 -> Call(f, -178, ClearRegion(p.regionKey), NoWrites)
          [] f.pc = -178 -> Raise(f, "NameError")

(* DeactivateRuleCommand.run; the note path tells the number of selected
   problems: "none", "one", "multiple" *)
deactivate_rule(f) ==
    LET ps == f.v.problems
        i == f.v.i
        rl == get_regions(regions, ps[i].regionKey)
        selected == IF Contains(f.v.sel, Span(rl[1])) THEN Append(f.v.selected, i)
                    ELSE f.v.selected
        p == ps[selected[1]]
        rule == [id |-> p.rule, description |-> p.message]
    IN  CASE f.pc = 523 ->
                Go([f EXCEPT !.v.ignored = load_ignored_rules(ignored),
                             !.v.problems = ProblemList(problems)],
                   524, NoWrites)
          [] f.pc = 524 ->
                IF sel = <<>> THEN Raise(f, "IndexError")
                ELSE IF ps = <<>> THEN Return(f, [path |-> "none"])
                ELSE Go([f EXCEPT !.v.sel = sel[1], !.v.i = 1], 526, NoWrites)
          [] f.pc = 526 ->
                IF rl = <<>> THEN Raise(f, "IndexError")
                ELSE IF i < Len(ps)
                THEN Go([f EXCEPT !.v.selected = selected, !.v.i = i + 1], 526, NoWrites)
                ELSE IF selected = <<>> THEN Return(f, [path |-> "none"])
                ELSE IF Len(selected) = 1
                THEN Go([f EXCEPT !.v.ignored = Append(@, rule),
                                  !.v.keys = rule_keys(ps, rule.id), !.v.j = 1],
                        -535, [path |-> "one", found |-> selected[1]])
                ELSE Return(f, [path |-> "multiple"])
          [] f.pc = -535 ->
                IF f.v.j <= Len(f.v.keys)
                THEN Call([f EXCEPT !.v.j = @ + 1], -535, IgnoreProblem(f.v.keys[f.v.j]),
                          NoWrites)
                ELSE Call(f, 538, GotoNextLanguageProblem(TRUE), NoWrites)
          [] f.pc = 538 -> Return(f, [ignored |-> save_ignored_rules(f.v.ignored)])

\* a store that keeps the list the setting holds
KeepStored(stored, value) == IF stored.has THEN stored ELSE Some(value)

\* view.settings().set("language_tool_problems", problems)
settings_set(stored, value) == Some(value)

\* the HTTP errors of the model: e.code, e.reason, e.read()
HttpErrors == {[code |-> 500, reason |-> "Internal Server Error", body |-> "Internal error"],
               [code |-> 404, reason |-> "Not Found", body |-> ""]}

NoHttpError == [code |-> 0, reason |-> "", body |-> ""]

\* conn when a call of _connect starts
Calling(call, payload) ==
    [conn EXCEPT !.pc = "sent", !.call = call, !.payload = payload, !.event = NoValue,
                 !.http = NoHttpError, !.raised = NoValue, !.result = None]

(* LanguageToolCommand.check_text and get_text.  At line 400 the call
   waits for the server. *)
check_text(f) ==
    LET v == f.v
        check_region == IF Empty(v.selection) THEN Region(0, Len(buffer)) ELSE v.selection
        toks == extract_tokens_with_scopes(buffer, v.check_region)
        st == get_text_token(v.st, Substr(buffer, v.toks[v.k].span), v.toks[v.k].type)
        \* view.settings().get("language_tool_language", "auto")
        lang == IF language = NoValue THEN "auto" ELSE language
        problem == get_problem(v.resp[v.j], v.check_region.a)
        next_match(new, src) ==
            IF v.j < Len(v.resp)
            THEN Go([f EXCEPT !.v.problems = new, !.v.src = src, !.v.j = v.j + 1],
                    419, NoWrites)
            ELSE Go([f EXCEPT !.v.problems = new, !.v.src = src, !.v.j = 1],
                    IF new = <<>> THEN 461 ELSE 429, NoWrites)
        region_key == Str(v.j - 1)
    IN  CASE f.pc = 385 ->
                IF sel = <<>> THEN Raise(f, "IndexError")
                ELSE Go([f EXCEPT !.v.selection = sel[1]], 386, NoWrites)
          [] f.pc = 386 -> Go([f EXCEPT !.v.check_region = check_region], 357, NoWrites)
          [] f.pc = 357 ->
                IF toks = <<>> THEN Go([f EXCEPT !.v.check_text = get_text(v.st)], -390, NoWrites)
                ELSE Go([f EXCEPT !.v.toks = toks, !.v.k = 1], 360, NoWrites)
          [] f.pc = 360 ->
                IF v.k < Len(v.toks)
                THEN Go([f EXCEPT !.v.st = st, !.v.k = v.k + 1], 360, NoWrites)
                ELSE Go([f EXCEPT !.v.st = st, !.v.check_text = get_text(st)], -390, NoWrites)
          [] f.pc = -390 ->
                Call(f, 392,
                     Frame("clear_language_problems", 129, TRUE,
                           [problems |-> <<>>, i |-> 0, caretPos |-> 0]),
                     NoWrites)
          [] f.pc = 392 -> Go([f EXCEPT !.v.language = lang], 396, NoWrites)
          [] f.pc = 396 ->
                Go([f EXCEPT !.v.ignored_ids = ignored_ids(load_ignored_rules(ignored))],
                   398, NoWrites)
          [] f.pc = 398 ->
                Go(f, 400,
                   [before |-> TRUE,
                    conn |-> Calling("getResponse",
                                     Some(getResponsePayload(v.check_text, v.language,
                                                             v.ignored_ids, conn.username,
                                                             conn.apikey)))])
          [] f.pc = 419 ->
                IF inside(problem, v.check_region, chk.log)
                THEN Go([f EXCEPT !.v.problem = problem], 424, NoWrites)
                ELSE next_match(v.problems, v.src)
          [] f.pc = 424 ->
                IF is_ignored(v.problem, buffer) THEN next_match(v.problems, v.src)
                ELSE next_match(Append(v.problems, v.problem), Append(v.src, v.resp[v.j]))
          [] f.pc = 429 ->
                Go([f EXCEPT !.v.region = get_region(v.problems[v.j], chk.log)], 430, NoWrites)
          [] f.pc = 430 ->
                Go([f EXCEPT !.v.problems =
                         [k \in DOMAIN v.problems |->
                             IF k = v.j
                             THEN highlighted(v.problems[k], Substr(buffer, v.region),
                                              region_key)
                             ELSE v.problems[k]]],
                   435, NoWrites)
          [] f.pc = 435 ->
                Go([f EXCEPT !.v.j = v.j + 1], IF v.j < Len(v.problems) THEN 429 ELSE -457,
                   [regions |-> add_regions(regions, region_key, <<Clamp(v.region, buffer)>>,
                                            HighlightScope, "DRAW_NO_FILL")])
          [] f.pc = -457 -> Call(f, 461, SelectProblem(v.problems[1]), NoWrites)
          [] f.pc = 461 ->
                Return(f, [problems |-> settings_set(problems, v.problems), path |-> "stored"])

(* ChangeLanguageToolLanguageCommand.run after the request of line 282:
   the list of languages is written to the settings of the view, and the
   panel of the names is shown *)
change_language_tool_language(f) ==
    LET languageNames == [i \in DOMAIN f.v.languages |-> f.v.languages[i][1]]
    IN  CASE f.pc = 286 -> Go(f, 289, [languages |-> Some(f.v.languages)])
          [] f.pc = 289 ->
                Return(f, [panel |-> [kind |-> "language", problem |-> <<>>,
                                      items |-> languageNames]])

\* the statement of a frame
Exec(f) ==
    IF f.pc = 0 THEN Return(f, NoWrites)
    ELSE CASE f.proc = "move_caret" -> move_caret(f)
           [] f.proc = "select_problem" -> select_problem(f)
           [] f.proc = "goto_next_language_problem" -> goto_next_language_problem(f)
           [] f.proc = "select_problem_at_cursor" -> select_problem_at_cursor(f)
           [] f.proc = "recompute_highlights" -> recompute_highlights(f)
           [] f.proc = "clear_language_problems" -> clear_language_problems(f)
           [] f.proc = "clear_region" -> clear_region(f)
           [] f.proc = "ignore_problem" -> ignore_problem(f)
           [] f.proc = "mark_language_problem_solved" -> mark_language_problem_solved(f)
           [] f.proc = "callback_fun" -> callback_fun(f)
           [] f.proc = "deactivate_rule" -> deactivate_rule(f)
           [] f.proc = "check_text" -> check_text(f)
           [] f.proc = "change_language_tool_language" -> change_language_tool_language(f)

Top(stack) == stack[Len(stack)]

\* The frames an exception leaves: it ends the calls up to and with the
\* innermost one the host started (a command run by view.run_command, the
\* listener, a callback); the host reports it, and the caller goes on.
Unwind(stack) ==
    SubSeq(stack, 1, MaxOf({i \in DOMAIN stack : stack[i].cmd}) - 1)

\* thread t after the statement of its top frame did e; the notes of the
\* handler are those of its first frame
Pushed(t, e) ==
    LET base == SubSeq(t.stack, 1, Len(t.stack) - 1)
        noted == [t EXCEPT !.path = IF Len(t.stack) = 1 THEN Written(e.w, "path", @) ELSE @,
                           !.found = IF Len(t.stack) = 1 THEN Written(e.w, "found", @) ELSE @]
    IN  CASE e.k = "go" -> [noted EXCEPT !.stack = Append(base, e.f)]
          [] e.k = "call" -> [noted EXCEPT !.stack = base \o <<e.f, e.x>>]
          [] e.k = "ret" -> [noted EXCEPT !.stack = base]
          [] e.k = "raise" ->
                [noted EXCEPT !.stack = Unwind(Append(base, e.f)),
                              !.exc = e.x,
                              !.died = Unwind(Append(base, e.f)) = <<>>]

RECURSIVE Settle(_)
\* thread t at its next statement that is a step of its own
Settle(t) ==
    IF t.stack = <<>> \/ Top(t.stack).pc > 0 THEN t
    ELSE Settle(Pushed(t, Exec(Top(t.stack))))

----------------------------------------------------------------------------
(* The state machine *)

NoPanel == [kind |-> "none", problem |-> <<>>, items |-> <<>>]

\* ui: the UI thread.  stack holds the calls of the handler it runs, and
\* is empty between two handlers.  The other fields tell of the handler:
\* op, its name; path and found, the notes of its first call; exc, the
\* last exception raised in it; died, whether an exception ended it;
\* clean, whether the async thread took no step since it started; pre, the
\* view as it was when a command or a callback started.
IdleUi == [stack |-> <<>>, op |-> "none", path |-> "", found |-> 0, exc |-> NoValue,
           died |-> FALSE, clean |-> TRUE, pre |-> NoValue]

\* chk: the async thread.  stack holds the calls of the check_text it
\* runs.  Besides the fields of a handler: overlap, whether the call was
\* queued while the call before it was running; inputs, the number of
\* handlers of the UI thread that ran since it started; logging, whether
\* it has taken `before` (view.change_id()); log, the changes made to the
\* buffer since.
IdleChk == [stack |-> <<>>, op |-> "check_text", path |-> "", found |-> 0,
            exc |-> NoValue, died |-> FALSE, overlap |-> FALSE, inputs |-> 0,
            logging |-> FALSE, log |-> <<>>]

\* last: the record of the handler that ended with the last step, of op
\* "none" when the step ended no handler; clean tells that the other
\* thread ran nothing while the handler ran.  For a check_text, src and
\* resp are the matches the stored problems were made of and the matches
\* of the response, and found is the number of problems that were stored
\* when it started if it was queued during the call before it (otherwise
\* 0).
LastOf(op) ==
    [op |-> op, found |-> 0, path |-> "", err |-> FALSE, exc |-> NoValue,
     died |-> FALSE, clean |-> TRUE, src |-> <<>>, resp |-> <<>>]

\* the record of handler t at its end
Done(t) ==
    [LastOf(t.op) EXCEPT !.found = t.found, !.path = t.path, !.err = t.exc # NoValue,
                         !.exc = t.exc, !.died = t.died,
                         !.clean = IF "clean" \in DOMAIN t THEN t.clean ELSE t.inputs = 0]

\* the view as a command finds it
Snapshot ==
    [buffer |-> buffer, sel |-> sel, regions |-> regions, problems |-> problems,
     ignored |-> ignored]

\* the state of a view that was never checked, with settings, server and
\* host; room is the length of the longest of the texts: the user types,
\* and starts a command that may put text into the buffer, while the buffer
\* is no longer
InitWith(texts, rules, ignored_scopes, answers, username, apikey, hosts) ==
    /\ buffer \in texts
    /\ sel = <<Region(0, 0)>>
    /\ regions = [k \in {Str(i) : i \in 0..(MaxMatches - 1)} |-> <<>>]
    /\ problems = None
    /\ ignored = <<>>
    /\ pending = <<>>
    /\ ui = IdleUi
    /\ chk = IdleChk
    /\ panel = NoPanel
    /\ last = LastOf("init")
    /\ language = NoValue
    /\ languages = None
    /\ conn = [pc |-> "idle", call |-> NoValue, username |-> username, apikey |-> apikey,
               payload |-> None, event |-> NoValue, http |-> NoHttpError,
               raised |-> NoValue, result |-> None, queue |-> <<>>, shown |-> None]
    /\ \E h \in hosts :
           env = [rules |-> rules, ignored_scopes |-> ignored_scopes, answers |-> answers,
                  dummy_edit_modifies |-> h, room |-> MaxOf({Len(t) : t \in texts})]

\* The user's next input goes to the view: the UI thread runs no handler
\* and no quick panel has the input focus.
UIFree == ui.stack = <<>> /\ panel.kind = "none"

\* the handlers the UI thread runs while one check_text runs stay within
\* the bound of the model
InBound == chk.stack # <<>> => chk.inputs < MaxInputs

\* chk after a handler of the UI thread started
Touched == IF chk.stack = <<>> THEN chk ELSE [chk EXCEPT !.inputs = @ + 1]

\* ui after a step of the async thread
Disturbed == IF ui.stack = <<>> THEN ui ELSE [ui EXCEPT !.clean = FALSE]

\* the user makes n changes that leave the text buf only within the bounds
\* of the model
CanChange(buf, n) ==
    /\ Len(buf) <= env.room
    /\ chk.logging => Len(chk.log) + n <= MaxChanges

\* async thread t after the UI thread made the changes cs to the buffer:
\* they count for view.transform_region_from(_, before)
Logged(t, cs) == IF t.logging THEN [t EXCEPT !.log = @ \o cs] ELSE t

\* handler op of the UI thread at its first call
Handler(op, frame, pre) ==
    Settle([IdleUi EXCEPT !.stack = <<frame>>, !.op = op, !.pre = pre])

(* The UI thread, with calls t, makes the call of the host API it stands
   before, and goes on to the next one; async and pan are the async
   thread and the panel as the step finds them. *)
UIDoes(t, async, pan) ==
    \E e \in {Exec(Top(t.stack))} :
        \E t2 \in {Settle(Pushed(t, e))} :
            /\ buffer' = Written(e.w, "buffer", buffer)
            /\ sel' = Written(e.w, "sel", sel)
            /\ regions' = Written(e.w, "regions", regions)
            /\ problems' = Written(e.w, "problems", problems)
            /\ ignored' = Written(e.w, "ignored", ignored)
            /\ panel' = Written(e.w, "panel", pan)
            /\ languages' = Written(e.w, "languages", languages)
            /\ chk' = IF "edits" \in DOMAIN e.w THEN Logged(async, e.w.edits) ELSE async
            /\ ui' = IF t2.stack = <<>> THEN IdleUi ELSE t2
            /\ last' = IF t2.stack = <<>> THEN Done(t2) ELSE LastOf("none")
            /\ UNCHANGED <<pending, language, conn, env>>

(* the next call of the handler the UI thread runs; at line 282 it waits
   for the server *)
UIStep ==
    /\ ui.stack # <<>>
    /\ Top(ui.stack).pc # 282
    /\ UIDoes(ui, chk, panel)

(* The user moves the selection. *)
SetSel(a, b) ==
    /\ UIFree
    /\ InBound
    /\ sel # <<Region(a, b)>>
    /\ sel' = <<Region(a, b)>>
    /\ chk' = Touched
    /\ last' = LastOf("user")
    /\ UNCHANGED <<buffer, regions, problems, ignored, pending, ui, panel, language,
                   languages, conn, env>>

(* The host puts text in the place of [c.s, c.e) for the user and calls
   the listener: on_modified runs recompute_highlights. *)
UserEdit(c, text) ==
    /\ UIFree
    /\ InBound
    /\ CanChange(Splice(buffer, c.s, c.e, text), 1)
    /\ buffer' = Splice(buffer, c.s, c.e, text)
    /\ regions' = TrackAll(regions, c)
    /\ sel' = <<Region(c.s + c.n, c.s + c.n)>>
    /\ chk' = Logged(Touched, <<c>>)
    /\ LET ps == ProblemList(problems)
           solved == {i \in DOMAIN ps : /\ HasRegion(regions, ps[i])
                                        /\ is_problem_solved(regions, buffer, ps[i])}
       IN  ui' = [Handler("edit", RecomputeHighlights(TRUE), NoValue)
                      EXCEPT !.found = Cardinality(solved)]
    /\ last' = LastOf("none")
    /\ UNCHANGED <<problems, ignored, pending, panel, language, languages, conn, env>>

(* The user types a character: it replaces the selection. *)
TypeChar(ch) ==
    /\ Len(sel) = 1
    /\ UserEdit(Change(Begin(sel[1]), End(sel[1]), 1), <<ch>>)

(* The user deletes the selection, or the character before the caret. *)
Backspace ==
    /\ Len(sel) = 1
    /\ Begin(sel[1]) > 0 \/ ~Empty(sel[1])
    /\ UserEdit(IF Empty(sel[1]) THEN Change(Begin(sel[1]) - 1, Begin(sel[1]), 0)
                ELSE Change(Begin(sel[1]), End(sel[1]), 0),
                <<>>)

(* GotoNextLanguageProblemCommand.run *)
GotoNext(jump_forward) ==
    /\ UIFree
    /\ InBound
    /\ UIDoes([Handler("goto_next_language_problem",
                       GotoNextLanguageProblem(jump_forward), Snapshot)
                   EXCEPT !.path = IF jump_forward THEN "forward" ELSE "backward"],
              Touched, panel)

(* SelectProblemAtCursorCommand.run *)
SelectProblemAtCursor ==
    /\ UIFree
    /\ InBound
    /\ UIDoes(Handler("select_problem_at_cursor",
                      Frame("select_problem_at_cursor", 93, TRUE,
                            [problems |-> <<>>, sel |-> Region(0, 0), i |-> 0,
                             r |-> Region(0, 0)]),
                      Snapshot),
              Touched, panel)

(* ClearLanguageProblemsCommand.run *)
ClearLanguageProblems ==
    /\ UIFree
    /\ InBound
    /\ UIDoes(Handler("clear_language_problems",
                      Frame("clear_language_problems", 129, TRUE,
                            [problems |-> <<>>, i |-> 0, caretPos |-> 0]),
                      Snapshot),
              Touched, panel)

(* MarkLanguageProblemSolvedCommand.run *)
MarkSolved(apply_fix) ==
    /\ UIFree
    /\ InBound
    /\ apply_fix => Len(buffer) <= env.room
    /\ UIDoes(Handler("mark_language_problem_solved",
                      Frame("mark_language_problem_solved", 147, TRUE,
                            [apply_fix |-> apply_fix, problems |-> <<>>,
                             selected_region |-> Region(0, 0), i |-> 0, problem |-> <<>>,
                             next_caret_pos |-> 0, keys |-> <<>>, j |-> 0,
                             region |-> Region(0, 0)]),
                      Snapshot),
              Touched, panel)

(* callback_fun(choice) of the suggestion panel: choice is the index of
   the chosen replacement, -1 when the panel was cancelled *)
SuggestionCallback(choice) ==
    /\ ui.stack = <<>>
    /\ panel.kind = "suggest"
    /\ InBound
    /\ choice \in -1..(Len(panel.items) - 1)
    /\ choice # -1 => Len(buffer) <= env.room
    /\ UIDoes(Handler(IF choice = -1 THEN "cancel_suggestion" ELSE "choose_suggestion",
                      Frame("callback_fun", -184, TRUE,
                            [choice |-> choice, problem |-> panel.problem[1],
                             replacements |-> panel.items, c |-> 0]),
                      Snapshot),
              Touched, NoPanel)

(* DeactivateRuleCommand.run *)
DeactivateRule ==
    /\ UIFree
    /\ InBound
    /\ Len(ignored) < MaxIgnored
    /\ UIDoes(Handler("deactivate_rule",
                      Frame("deactivate_rule", 523, TRUE,
                            [ignored |-> <<>>, problems |-> <<>>, sel |-> Region(0, 0),
                             i |-> 0, selected |-> <<>>, keys |-> <<>>, j |-> 0]),
                      Snapshot),
              Touched, panel)

(* ActivateRuleCommand.run *)
ActivateRule ==
    LET ign == load_ignored_rules(ignored)
    IN  /\ UIFree
        /\ InBound
        /\ panel' = IF ign # <<>>
                    THEN [kind |-> "activate", problem |-> <<>>,
                          items |-> [i \in DOMAIN ign |-> <<ign[i].id, ign[i].description>>]]
                    ELSE NoPanel
        /\ chk' = Touched
        /\ last' = LastOf("activate_rule")
        /\ UNCHANGED <<buffer, sel, regions, problems, ignored, pending, ui,
                       language, languages, conn, env>>

\* list.remove(x): the list without its first element equal to x
list_remove(seq, x) ==
    LET k == MinOf({i \in DOMAIN seq : seq[i] = x})
    IN  SubSeq(seq, 1, k - 1) \o SubSeq(seq, k + 1, Len(seq))

\* ActivateRuleCommand.activate_callback(i): the list it saves
activate_callback(ign, i) ==
    IF i # -1 THEN save_ignored_rules(list_remove(ign, ign[i + 1])) ELSE ign

(* ActivateRuleCommand.activate_callback(i) *)
ActivateCallback(i) ==
    /\ ui.stack = <<>>
    /\ panel.kind = "activate"
    /\ InBound
    /\ i \in -1..(Len(panel.items) - 1)
    /\ i + 1 <= Len(ignored)
    /\ ignored' = activate_callback(load_ignored_rules(ignored), i)
    /\ panel' = NoPanel
    /\ chk' = Touched
    /\ last' = [LastOf("activate_callback") EXCEPT !.found = i + 1]
    /\ UNCHANGED <<buffer, sel, regions, problems, pending, ui, language, languages,
                   conn, env>>

(* LanguageToolCommand.run: check_text is queued for the async thread; the
   entry of the queue notes whether a check_text is running *)
LanguageToolRun ==
    /\ UIFree
    /\ InBound
    /\ Len(pending) < MaxPending
    /\ pending' = Append(pending, chk.stack # <<>>)
    /\ chk' = Touched
    /\ last' = LastOf("language_tool")
    /\ UNCHANGED <<buffer, sel, regions, problems, ignored, ui, panel, language,
                   languages, conn, env>>

----------------------------------------------------------------------------
(* check_text on the async thread.  The host runs the queued calls one
   after the other, while the UI thread runs its handlers: a step of a
   thread is one call of the host API. *)

(* The async thread, with calls t, makes the call of the host API it
   stands before. *)
AsyncDoes(t) ==
    \E e \in {Exec(Top(t.stack))} :
        \E t2 \in {Settle(Pushed(t, e))} :
            /\ sel' = Written(e.w, "sel", sel)
            /\ regions' = Written(e.w, "regions", regions)
            /\ problems' = Written(e.w, "problems", problems)
            /\ conn' = Written(e.w, "conn", conn)
            /\ chk' = IF t2.stack = <<>> THEN IdleChk
                      ELSE IF "before" \in DOMAIN e.w
                      THEN [t2 EXCEPT !.logging = TRUE, !.log = <<>>]
                      ELSE t2
            /\ last' = IF t2.stack = <<>>
                       THEN [Done(t2) EXCEPT !.src = t.stack[1].v.src,
                                             !.resp = t.stack[1].v.resp]
                       ELSE LastOf("none")
            /\ ui' = Disturbed
            /\ UNCHANGED <<buffer, ignored, panel, language, languages, env>>

(* the next queued call of check_text starts: line 385 *)
CheckBegin ==
    /\ pending # <<>>
    /\ chk.stack = <<>>
    /\ pending' = Tail(pending)
    /\ AsyncDoes([IdleChk EXCEPT
                     !.stack = <<Frame("check_text", 385, TRUE,
                                       [selection |-> Region(0, 0),
                                        check_region |-> Region(0, 0),
                                        toks |-> <<>>, k |-> 0,
                                        st |-> [chunks |-> <<>>, current_chunk |-> <<>>,
                                                current_type |-> -1],
                                        check_text |-> [annotation |-> <<>>],
                                        language |-> "", ignored_ids |-> <<>>,
                                        resp |-> <<>>, j |-> 0, problem |-> <<>>,
                                        problems |-> <<>>, src |-> <<>>,
                                        region |-> Region(0, 0)])>>,
                     !.overlap = Head(pending),
                     !.inputs = IF ui.stack = <<>> THEN 0 ELSE 1,
                     !.found = IF Head(pending) THEN Len(ProblemList(problems)) ELSE 0])

(* a call of check_text before and after the request *)
AsyncStep ==
    /\ chk.stack # <<>>
    /\ Top(chk.stack).pc # 400
    /\ AsyncDoes(chk)
    /\ UNCHANGED pending

\* conn after _connect ended with outcome r for the event
Returned(event, e, r) ==
    [conn EXCEPT !.pc = "returned", !.payload = None, !.event = event, !.http = e,
                 !.raised = r.raised, !.result = None, !.queue = conn.queue \o r.timeouts]


\* check_text waits for the server
Waiting == chk.stack # <<>> /\ Top(chk.stack).pc = 400

(* lines 400-405: the request ends without matches (a failure, an empty
   body or an empty JSON object) and check_text returns, or dies of the
   exception _connect let through; the record keeps what the call noted
   before the request *)
CheckFails(event, body, e) ==
    LET r == connect(CallEvent("getResponse", event), body, e)
        matches == getResponseResult(r.result)
        f == Top(chk.stack)
        t2 == Pushed([chk EXCEPT !.path = "no matches"],
                     IF r.raised # NoValue THEN Raise(f, r.raised)
                     ELSE Return(f, NoWrites))
    IN  /\ Waiting
        /\ ~matches.has
        /\ Len(conn.queue) + Len(r.timeouts) <= MaxQueue
        /\ chk' = IdleChk
        /\ conn' = Returned(event, e, r)
        /\ last' = Done(t2)
        /\ ui' = Disturbed
        /\ UNCHANGED <<buffer, sel, regions, problems, ignored, pending, panel, language,
                       languages, env>>

(* lines 400-407: getResponse returns matches, and check_region is carried
   through the changes made since `before` *)
CheckResponse(resp) ==
    LET r == connect(CallEvent("getResponse", "ok"), [matches |-> resp], NoHttpError)
        matches == getResponseResult(r.result)
        f == Top(chk.stack)
    IN  /\ Waiting
        /\ matches.has
        /\ chk' = [chk EXCEPT
                      !.stack = <<[f EXCEPT
                                     !.pc = IF matches.val = <<>> THEN 461 ELSE 419,
                                     !.v.resp = matches.val, !.v.j = 1,
                                     !.v.check_region =
                                         TransformFrom(f.v.check_region, chk.log)]>>]
        /\ conn' = Returned("ok", NoHttpError, r)
        /\ ui' = Disturbed
        /\ last' = LastOf("none")
        /\ UNCHANGED <<buffer, sel, regions, problems, ignored, pending, panel,
                       language, languages, env>>

(* the callback _connect gave to sublime.set_timeout runs: _error(msg) *)
ShowError ==
    /\ ui.stack = <<>>
    /\ conn.queue # <<>>
    /\ conn' = [conn EXCEPT !.queue = Tail(@),
                            !.shown = IF Head(conn.queue).has
                                      THEN Some(error_text(Head(conn.queue).val))
                                      ELSE @]
    /\ last' = [LastOf("_error") EXCEPT !.err = ~Head(conn.queue).has]
    /\ UNCHANGED <<buffer, sel, regions, problems, ignored, pending, ui, chk, panel,
                   language, languages, env>>

----------------------------------------------------------------------------
(* ChangeLanguageToolLanguageCommand *)

\* The languages of the modelled server, in the order sorted() gives the
\* tuples (name, longCode).
LanguageCatalogue ==
    << [name |-> "English", longCode |-> "en"],
       [name |-> "English (US)", longCode |-> "en-US"],
       [name |-> "German", longCode |-> "de"] >>

\* languages of ChangeLanguageToolLanguageCommand.run: the entry of the
\* autodetection, then sorted(set((lang["name"], lang["longCode"]) for lang
\* in response))
language_list(response) ==
    LET listed(lang) == \E i \in DOMAIN response : response[i] = lang
        kept == SelectSeq(LanguageCatalogue, listed)
    IN  << <<"Autodetect Language", "auto">> >> \o
        [i \in DOMAIN kept |-> <<kept[i].name, kept[i].longCode>>]

\* handle_language_selection(index): the value of the setting
\* "language_tool_language" it leaves, NoValue when it erases the setting;
\* languages[index] of Python counts an index below 0 from the end
handle_language_selection(langs, index) ==
    IF index = 0 THEN NoValue
    ELSE IF index < 0 THEN langs[Len(langs) + index + 1][2]
    ELSE langs[index + 1][2]

(* ChangeLanguageToolLanguageCommand.run up to the request of line 282:
   getLanguages calls _connect, and the command waits for the server *)
ChangeLanguage ==
    /\ UIFree
    /\ InBound
    /\ ui' = Handler("change_language_tool_language",
                     Frame("change_language_tool_language", 282, TRUE,
                           [languages |-> <<>>]),
                     Snapshot)
    /\ chk' = Touched
    /\ last' = LastOf("none")
    /\ UNCHANGED <<buffer, sel, regions, problems, ignored, pending, panel, language,
                   languages, conn, env>>

(* lines 282-285: _connect of getLanguages ends.  The command dies of the
   exception _connect let through; the loop over the response None raises
   TypeError; otherwise languages is made of the response. *)
GetLanguages(event, body, e) ==
    LET r == connect(CallEvent("getLanguages", event), body, e)
        f == Top(ui.stack)
        t2 == Pushed(ui, IF r.raised # NoValue THEN Raise(f, r.raised)
                         ELSE IF ~r.result.has THEN Raise(f, "TypeError")
                         ELSE Go([f EXCEPT !.v.languages = language_list(r.result.val)],
                                 286, NoWrites))
    IN  /\ ui.stack # <<>>
        /\ f.pc = 282
        /\ Len(conn.queue) + Len(r.timeouts) <= MaxQueue
        /\ conn' = [conn EXCEPT !.queue = @ \o r.timeouts]
        /\ ui' = IF t2.stack = <<>> THEN IdleUi ELSE t2
        /\ last' = IF t2.stack = <<>> THEN Done(t2) ELSE LastOf("none")
        /\ UNCHANGED <<buffer, sel, regions, problems, ignored, pending, chk, panel,
                       language, languages, env>>

(* ChangeLanguageToolLanguageCommand.handle_language_selection(index) *)
HandleLanguageSelection(index) ==
    /\ ui.stack = <<>>
    /\ panel.kind = "language"
    /\ InBound
    /\ index \in -1..(Len(panel.items) - 1)
    /\ language' = handle_language_selection(languages.val, index)
    /\ panel' = NoPanel
    /\ chk' = Touched
    /\ last' = [LastOf("handle_language_selection") EXCEPT !.found = index]
    /\ UNCHANGED <<buffer, sel, regions, problems, ignored, pending, ui,
                   languages, conn, env>>

----------------------------------------------------------------------------
(* The transport alone: one call of getResponse or of addWordToDict with any
   credentials *)

(* getResponse(server, data, language, disabledRules, username, apikey) up
   to the call of _connect *)
TGetResponse(data, lang, ids) ==
    /\ conn.pc = "idle"
    /\ conn' = Calling("getResponse",
                       Some(getResponsePayload(data, lang, ids, conn.username, conn.apikey)))
    /\ last' = LastOf("getResponse")
    /\ UNCHANGED <<buffer, sel, regions, problems, ignored, pending, ui, chk, panel,
                   language, languages, env>>

(* addWordToDict(server, word, username, apikey) up to the call of
   _connect *)
TAddWord(word) ==
    /\ conn.pc = "idle"
    /\ conn' = Calling("addWordToDict",
                       Some(addWordPayload(word, conn.username, conn.apikey)))
    /\ last' = LastOf("addWordToDict")
    /\ UNCHANGED <<buffer, sel, regions, problems, ignored, pending, ui, chk, panel,
                   language, languages, env>>

(* _connect ends, and its caller returns *)
TConnect(event, body, e) ==
    LET r == connect(CallEvent(conn.call, event), body, e)
    IN  /\ conn.pc = "sent"
        /\ conn' = [Returned(event, e, r) EXCEPT
                        !.payload = conn.payload,
                        !.result = IF conn.call = "addWordToDict"
                                   THEN addWordResult(r.result)
                                   ELSE getResponseResult(r.result)]
        /\ last' = [LastOf("_connect") EXCEPT !.err = (r.raised # NoValue)]
        /\ UNCHANGED <<buffer, sel, regions, problems, ignored, pending, ui, chk, panel,
                       language, languages, env>>

TNext ==
    \/ conn.pc = "idle" /\
           \E data \in {[annotation |-> <<>>],
                        [annotation |-> <<"text" :> <<"a">>, "markup" :> <<"b">>>>]},
              lang \in {"auto", "en-US"},
              ids \in UNION {[1..n -> {r.id : r \in ServerRules}] : n \in 0..2} :
               TGetResponse(data, lang, ids)
    \/ conn.pc = "idle" /\ \E word \in {<<"a">>, <<"a", "b">>} : TAddWord(word)
    \/ conn.call = "addWordToDict" /\
           \E body \in {<<>>, [added |-> TRUE], [added |-> FALSE]} :
               TConnect("ok", body, NoHttpError)
    \/ conn.call = "getResponse" /\
           \E body \in {<<>>, [matches |-> <<>>], [matches |-> <<Match(0, 1, Rule1)>>]} :
               TConnect("ok", body, NoHttpError)
    \/ TConnect("empty", <<>>, NoHttpError)
    \/ \E e \in HttpErrors : TConnect("http", <<>>, e)
    \/ \E ev \in FailureEvents \ {"http"} : TConnect(ev, <<>>, NoHttpError)
    \/ ShowError

\* the view is not used: an empty buffer, and every pair of credentials
SpecT ==
    /\ \E u \in {<<>>, <<"u">>, <<"k", "k">>}, k \in {<<>>, <<"u">>, <<"k", "k">>} :
           InitWith({<<>>}, ServerRules, <<>>, MaxMatches, u, k, {FALSE})
    /\ [][TNext]_vars

----------------------------------------------------------------------------
(* The specifications of the view *)

\* the user places the selection, in either direction
UserSelects ==
    \E a, b \in 0..Len(buffer) : SetSel(a, b)

\* the user selects from left to right
UserSelectsForward ==
    \E a, b \in 0..Len(buffer) : a <= b /\ SetSel(a, b)

\* the user puts the caret somewhere
UserPlacesCaret ==
    \E a \in 0..Len(buffer) : SetSel(a, a)

\* the text the server read
SentLen == Len(ChunksText(Top(chk.stack).v.check_text.annotation))

\* the server answers the request in flight with a response of set S
Answered(S) == \E resp \in Responses(SentLen) \cap S : CheckResponse(resp)

\* the steps of a check up to its request; a check is asked for when none
\* runs
Checks ==
    \/ chk.stack = <<>> /\ LanguageToolRun
    \/ CheckBegin
    \/ AsyncStep

\* checks that the server answers with any matches; a check may be asked
\* for while another one runs
Check ==
    \/ LanguageToolRun
    \/ CheckBegin
    \/ AsyncStep
    \/ Waiting /\ \E resp \in Responses(SentLen) : CheckResponse(resp)


\* The commands of the specifications with two problems run together with
\* a check_text only on a buffer of at most RaceLen characters; on a longer
\* buffer a command starts when no check_text runs, and a check_text when
\* no command runs.
RaceLen == 1

Racing == Len(buffer) <= RaceLen

(* Fixes and ignores of the problems of a check, with typing off: two
   rules of different categories, each with replacements.  The last
   argument of InitWith is the hosts: one reports the insertion of no text
   as a modification of the buffer (TRUE), one does not. *)
Init ==
    InitWith({<<"a">>, <<"a", "a">>}, {Rule1, Rule3}, <<>>, MaxMatches, <<>>, <<>>, BOOLEAN)

Next ==
    \/ UserSelectsForward
    \/ chk.stack = <<>> /\ LanguageToolRun
    \/ (Racing \/ ui.stack = <<>>) /\ CheckBegin
    \/ AsyncStep
    \/ Waiting /\ Answered({<<Match(0, 1, Rule1)>>,
                            <<Match(0, 1, Rule1), Match(1, 1, Rule1)>>,
                            <<Match(1, 1, Rule3), Match(1, 1, Rule1)>>,
                            <<Match(0, 1, Rule1), Match(1, 1, Rule3)>>})
    \/ UIStep
    \/ \E f \in BOOLEAN : (Racing \/ chk.stack = <<>>) /\ MarkSolved(f)

Spec == Init /\ [][Next]_vars

(* The suggestion panel of a problem with several replacements. *)
PanelNext ==
    \/ UserSelects
    \/ Check
    \/ UIStep
    \/ \E f \in BOOLEAN : GotoNext(f)
    \/ MarkSolved(TRUE)
    \/ \E i \in -1..1 : SuggestionCallback(i)

SpecPanel ==
    /\ InitWith({<<"a">>}, {Rule3}, <<>>, 1, <<>>, <<>>, BOOLEAN)
    /\ [][PanelNext]_vars

(* Checks that fail, and checks that store a problem. *)
FailNext ==
    \/ UserPlacesCaret
    \/ Check
    \/ \E e \in HttpErrors : CheckFails("http", <<>>, e)
    \/ \E ev \in (FailureEvents \ {"http"}) \cup {"empty"} :
           CheckFails(ev, <<>>, NoHttpError)
    \/ CheckFails("ok", <<>>, NoHttpError)
    \/ ShowError

SpecFail ==
    /\ InitWith({<<"a">>}, {Rule1}, <<>>, 1, <<>>, <<>>, {FALSE})
    /\ [][FailNext]_vars

(* Typing while a problem is tracked and while check_text runs: one rule
   of the server, one match in a response. *)
EditNext ==
    \/ UserSelects
    \/ \E ch \in Chars : TypeChar(ch)
    \/ Backspace
    \/ Check
    \/ UIStep
    \/ ClearLanguageProblems

SpecEdit ==
    /\ InitWith({<<"a">>}, {Rule1}, <<>>, 1, <<>>, <<>>, {FALSE})
    /\ [][EditNext]_vars

(* Typing into a longer buffer while one check_text runs: the buffer
   grows and shrinks between the steps of the check. *)
TypeNext ==
    \/ UserSelectsForward
    \/ Checks
    \/ Waiting /\ Answered({<<Match(0, 1, Rule1)>>, <<Match(1, 1, Rule1)>>})
    \/ chk.stack # <<>> /\ \E ch \in Chars : TypeChar(ch)
    \/ chk.stack # <<>> /\ Backspace
    \/ UIStep

SpecType ==
    /\ InitWith({<<"a">>, <<"a", "a">>}, {Rule1}, <<>>, 1, <<>>, <<>>, {FALSE})
    /\ [][TypeNext]_vars

(* Deactivating and activating rules on one buffer: two rules of the
   server, one match in a response. *)
RulesNext ==
    \/ UserSelectsForward
    \/ Check
    \/ UIStep
    \/ DeactivateRule
    \/ ActivateRule
    \/ \E i \in -1..(MaxIgnored - 1) : ActivateCallback(i)

SpecRules ==
    /\ InitWith({<<"a">>}, {Rule1, Rule2}, <<>>, 1, <<>>, <<>>, {FALSE})
    /\ [][RulesNext]_vars

(* Deactivating the rule of one of two problems. *)
DeactivateNext ==
    \/ UserSelectsForward
    \/ Checks
    \/ Waiting /\ Answered({<<Match(0, 1, Rule1), Match(1, 1, Rule1)>>})
    \/ UIStep
    \/ DeactivateRule

SpecDeactivate ==
    /\ InitWith({<<"a", "a">>}, {Rule1}, <<>>, MaxMatches, <<>>, <<>>, BOOLEAN)
    /\ [][DeactivateNext]_vars

(* Navigation in a longer buffer that is not edited: the problems of one
   rule on different texts, in either order, solved by ignoring them. *)
NavLen == 3

NavNext ==
    \/ UserPlacesCaret
    \/ Checks
    \/ Waiting /\ Answered({<<Match(2, 1, Rule2), Match(1, 1, Rule2)>>,
                            <<Match(1, 1, Rule2), Match(2, 1, Rule2)>>})
    \/ UIStep
    \/ GotoNext(TRUE)
    \/ MarkSolved(FALSE)

SpecNav ==
    /\ InitWith({[i \in 1..NavLen |-> IF i = 2 THEN "b" ELSE "a"]}, {Rule2}, <<>>,
                MaxMatches, <<>>, <<>>, {FALSE})
    /\ [][NavNext]_vars

(* Checks of a view with comments, "ignored-scopes" set to comments: the
   matches that check_text drops. *)
\* the server answers with any spans, also spans that end after the text
\* it was sent
ScopesNext ==
    \/ UserSelects
    \/ LanguageToolRun
    \/ CheckBegin
    \/ AsyncStep
    \/ Waiting /\ \E resp \in UNION {[1..k -> AllMatches(SentLen)] : k \in 0..env.answers} :
                      CheckResponse(resp)

SpecScopes ==
    /\ InitWith(UNION {[1..n -> Chars] : n \in 0..MaxLen}, {Rule1},
                << <<"comment", "*">> >>, MaxMatches, <<>>, <<>>, {FALSE})
    /\ [][ScopesNext]_vars

(* Every handler that adds, collapses or erases regions or writes the
   problem list: checks that overlap, clearing, fixes, ignores and the
   deactivation of rules, one rule of the server. *)
AllNext ==
    \/ Check
    \/ UIStep
    \/ ClearLanguageProblems
    \/ \E f \in BOOLEAN : MarkSolved(f)
    \/ DeactivateRule
    \/ \E f \in BOOLEAN : GotoNext(f)
    \/ SelectProblemAtCursor

SpecAll ==
    /\ InitWith({<<"a">>}, {Rule1}, <<>>, 1, <<>>, <<>>, {FALSE})
    /\ [][AllNext]_vars

(* The choice of the language of the view. *)
LangNext ==
    \/ ChangeLanguage
    \/ ui.stack # <<>> /\
           \E response \in UNION {[1..n -> {LanguageCatalogue[i] : i \in DOMAIN LanguageCatalogue}] :
                                     n \in 0..MaxLanguages} :
               GetLanguages("ok", response, NoHttpError)
    \/ \E e \in HttpErrors : GetLanguages("http", <<>>, e)
    \/ \E ev \in (FailureEvents \ {"http"}) \cup {"empty"} :
           GetLanguages(ev, <<>>, NoHttpError)
    \/ UIStep
    \/ \E index \in -1..MaxLanguages : HandleLanguageSelection(index)
    \/ ShowError

SpecLang ==
    /\ InitWith({<<>>}, ServerRules, <<>>, MaxMatches, <<>>, <<>>, {FALSE})
    /\ [][LangNext]_vars

----------------------------------------------------------------------------
(* Properties *)

\* the view as the handler the UI thread runs found it; the view itself
\* when the UI thread runs none
Pre == IF ui.stack = <<>> THEN Snapshot ELSE ui.pre

\* the stored problems as that handler found them
PreList == ProblemList(Pre.problems)

\* the step ends handler op of the UI thread
Ends(op) == last'.op = op /\ (ui.stack # <<>> \/ last' # last)

\* no check_text was running while the handler that ends ran
RanAlone == last'.clean /\ chk.stack = <<>>

\* the step is one of the async thread: a call of check_text starts, goes
\* on or ends
AsyncThreadStep == chk'.stack # chk.stack \/ Len(pending') < Len(pending)

\* the text of the buffer under a region, character by character
LiveText(r) == [k \in 1..(End(r) - Begin(r)) |-> buffer[Begin(r) + k]]

\* C1: in every reachable state, is_problem_solved of a tracked problem is
\* true exactly when the live region of the problem is empty or the text of
\* the buffer under it differs from the snapshot orgContent; a problem with
\* a non-empty region whose text equals the snapshot is unsolved, also
\* after it was solved by an edit.
C1_SolvedIffEmptyOrChanged ==
    \A i \in DOMAIN ProblemList(problems) :
        LET p == ProblemList(problems)[i]
            r == get_regions(regions, p.regionKey)[1]
        IN  HasRegion(regions, p) =>
                (is_problem_solved(regions, buffer, p)
                     <=> (r.a = r.b \/ LiveText(r) # p.orgContent))

\* C1 witness: an edit was made while the problem was solved, and now its
\* region is not empty, holds the text of the snapshot again, and the
\* problem is unsolved
C1_EditedBack ==
    /\ last.op = "edit"
    /\ last.found = 1
    /\ Len(ProblemList(problems)) = 1
    /\ HasRegion(regions, ProblemList(problems)[1])
    /\ LET p == ProblemList(problems)[1]
           r == get_regions(regions, p.regionKey)[1]
       IN  /\ r.a # r.b
           /\ LiveText(r) = p.orgContent
           /\ ~is_problem_solved(regions, buffer, p)

\* the problem is tracked, its region is not empty and holds the snapshot
Unsolved(regs, buf, p) ==
    /\ HasRegion(regs, p)
    /\ LET r == get_regions(regs, p.regionKey)[1]
       IN  /\ r.a # r.b
           /\ [k \in 1..(End(r) - Begin(r)) |-> buf[Begin(r) + k]] = p.orgContent

\* the start of the region of a problem
StartOf(regs, p) == get_regions(regs, p.regionKey)[1].a

\* the unsolved problems that start after the start of the selection
Ahead == {i \in DOMAIN PreList :
             /\ Unsolved(Pre.regions, Pre.buffer, PreList[i])
             /\ StartOf(Pre.regions, PreList[i]) > Begin(Pre.sel[1])}

\* goto_next_language_problem with jump_forward = true ends; it raised
\* nothing and no check_text was running
GotoForwardEnds ==
    /\ Ends("goto_next_language_problem")
    /\ last'.path = "forward"
    /\ ~last'.err
    /\ RanAlone
    /\ Pre.sel # <<>>

\* C2 as stated: goto_next_language_problem forward selects an unsolved
\* problem with the smallest region start greater than the start of the
\* selection, whatever its place in the stored list, and nothing when
\* there is none.
C2_SelectsNearest ==
    [][GotoForwardEnds =>
          IF Ahead = {} THEN last'.found = 0 /\ sel' = Pre.sel
          ELSE /\ last'.found \in Ahead
               /\ \A j \in Ahead :
                      StartOf(Pre.regions, PreList[last'.found])
                          <= StartOf(Pre.regions, PreList[j])
               /\ sel' = <<Span(get_regions(Pre.regions,
                                    PreList[last'.found].regionKey)[1])>>]_vars

\* C2, what holds when no check_text runs during the command:
\* goto_next_language_problem forward never selects a solved problem; it
\* selects the first problem in the order of the stored list that is
\* unsolved and starts after the start of the selection (the nearest one
\* when the list is in the order of the region starts), and nothing when
\* there is none.
C2_SelectsFirstInListOrder ==
    [][GotoForwardEnds =>
          IF Ahead = {} THEN last'.found = 0 /\ sel' = Pre.sel
          ELSE /\ last'.found \in Ahead
               /\ \A j \in Ahead : last'.found <= j
               /\ (\A j, k \in Ahead :
                       j <= k => StartOf(Pre.regions, PreList[j])
                                     <= StartOf(Pre.regions, PreList[k]))
                      => \A j \in Ahead :
                             StartOf(Pre.regions, PreList[last'.found])
                                 <= StartOf(Pre.regions, PreList[j])
               /\ sel' = <<Span(get_regions(Pre.regions,
                                    PreList[last'.found].regionKey)[1])>>]_vars

\* C2 witness: goto_next_language_problem forward has selected a problem
\* that is not the first of the list, while a solved problem and an
\* unsolved one are tracked
C2_Jumped ==
    /\ last.op = "goto_next_language_problem"
    /\ last.path = "forward"
    /\ last.clean
    /\ last.found > 1
    /\ \E i \in DOMAIN ProblemList(problems) :
           ~Unsolved(regions, buffer, ProblemList(problems)[i])
    /\ sel = <<Span(get_regions(regions, ProblemList(problems)[last.found].regionKey)[1])>>

\* the problems whose region equals the first selection
AtSelection == {i \in DOMAIN PreList :
                   /\ HasRegion(Pre.regions, PreList[i])
                   /\ Span(get_regions(Pre.regions, PreList[i].regionKey)[1]) = Pre.sel[1]}

\* the marker of problem i after the step is one empty region at the place
\* where its region started when the handler started
CollapsedByStep(i) ==
    LET key == PreList[i].regionKey
    IN  /\ Len(regions'[key]) = 1
        /\ regions'[key][1].a = Pre.regions[key][1].a
        /\ regions'[key][1].b = Pre.regions[key][1].a

\* mark_language_problem_solved ends on the ignore path, and no check_text
\* was running
IgnoreEnds ==
    /\ Ends("mark_language_problem_solved")
    /\ last'.path \in {"ignore", "ignore, no replacements"}
    /\ RanAlone

\* mark_language_problem_solved ends on the ignore path; the view had a
\* selection when the command started
IgnoreRan ==
    /\ Ends("mark_language_problem_solved")
    /\ last'.path \in {"ignore", "ignore, no replacements"}
    /\ Pre.sel # <<>>

\* the spans of the regions under a key
SpanList(regs, key) == [j \in DOMAIN regs[key] |-> Span(regs[key][j])]

\* after the step every problem with the category and the snapshot of
\* problem P is collapsed and solved, and the other problems have the
\* regions they had
IgnoredWith(P) ==
    \A j \in DOMAIN PreList :
        LET p == PreList[P]
            q == PreList[j]
        IN  IF q.category = p.category /\ q.orgContent = p.orgContent
            THEN CollapsedByStep(j) /\ ~Unsolved(regions', buffer', q)
            ELSE SpanList(regions', q.regionKey) = SpanList(Pre.regions, q.regionKey)

\* C3 as stated, on every run of the command: when the ignore path runs
\* for a problem P whose region equals the selection (apply_fix false, or P
\* without replacements), every problem with the category and snapshot of P
\* is collapsed and solved, and the other problems keep their regions.
C3_IgnoreClearsEquals ==
    [][IgnoreRan =>
          \A P \in AtSelection :
              (last'.path = "ignore" \/ PreList[P].replacements = <<>>)
                  => IgnoredWith(P)]_vars

\* C3, what holds: when no check_text runs during a command that takes the
\* ignore path, the problem it acts on is the first problem of the stored
\* list whose region equals the selection; every problem with the category
\* and snapshot of that one is collapsed and solved, the others keep their
\* regions, and the buffer and the stored list are as they were.
C3_IgnoreAloneClearsEqualsOfFirst ==
    [][IgnoreEnds =>
          /\ AtSelection # {}
          /\ last'.found \in AtSelection
          /\ \A j \in AtSelection : last'.found <= j
          /\ buffer' = Pre.buffer
          /\ problems' = Pre.problems
          /\ IgnoredWith(last'.found)]_vars

\* C3 witness: the ignore path has run and two problems of one category
\* and snapshot, at different places, are both collapsed
C3_BothCleared ==
    /\ last.op = "mark_language_problem_solved"
    /\ last.path = "ignore"
    /\ last.clean
    /\ Len(ProblemList(problems)) = 2
    /\ \A i \in 1..2 : HasRegion(regions, ProblemList(problems)[i])
    /\ LET p == ProblemList(problems)[1]
           q == ProblemList(problems)[2]
           rp == get_regions(regions, p.regionKey)[1]
           rq == get_regions(regions, q.regionKey)[1]
       IN  /\ p.category = q.category /\ p.orgContent = q.orgContent
           /\ p.offset # q.offset
           /\ rp.a = rp.b /\ rq.a = rq.b /\ rp.a # rq.a

\* the buffer with the text of region r replaced by text t, character by
\* character
Replaced(buf, r, t) ==
    [k \in 1..(Len(buf) - (r.b - r.a) + Len(t)) |->
        IF k <= r.a THEN buf[k]
        ELSE IF k <= r.a + Len(t) THEN t[k - r.a]
        ELSE buf[k - Len(t) + (r.b - r.a)]]

\* mark_language_problem_solved with apply_fix = true ends; it found a
\* problem for the selection, and no check_text was running
ApplyFixEnds ==
    /\ Ends("mark_language_problem_solved")
    /\ last'.path \in {"fix", "fix of a solved problem", "ignore, no replacements", "panel"}
    /\ RanAlone

\* mark_language_problem_solved with apply_fix = true ends; it found a
\* problem for the selection, and the view had a selection when the
\* command started
ApplyFixRan ==
    /\ Ends("mark_language_problem_solved")
    /\ last'.path \in {"fix", "fix of a solved problem", "ignore, no replacements", "panel"}
    /\ Pre.sel # <<>>

\* what the fix of problem P with its one replacement does
FixedWith(P) ==
    LET p == PreList[P]
        r == get_regions(Pre.regions, p.regionKey)[1]
    IN  /\ buffer' = Replaced(Pre.buffer, r, p.replacements[1])
        /\ CollapsedByStep(P)

\* C5 as stated, on every run of the command: when
\* mark_language_problem_solved runs with apply_fix = true and the
\* selection equals the region of an unsolved problem with exactly one
\* replacement, the buffer afterwards is the old buffer with the text of the
\* region replaced by the replacement, and the marker of the problem is
\* collapsed at the former start of the region.
C5_FixReplacesAndCollapses ==
    [][ApplyFixRan =>
          \A P \in AtSelection :
              (/\ Unsolved(Pre.regions, Pre.buffer, PreList[P])
               /\ Len(PreList[P].replacements) = 1)
                  => FixedWith(P)]_vars

\* C5, what holds: the same when no check_text runs during the command,
\* for the problem the command acts on, the first problem of the stored
\* list whose region equals the selection.
C5_FixAloneOfFirst ==
    [][ApplyFixEnds =>
          /\ AtSelection # {}
          /\ last'.found \in AtSelection
          /\ \A j \in AtSelection : last'.found <= j
          /\ (/\ Unsolved(Pre.regions, Pre.buffer, PreList[last'.found])
              /\ Len(PreList[last'.found].replacements) = 1)
                 => (last'.path = "fix" /\ FixedWith(last'.found))]_vars

\* C5 witness: the one replacement of an unsolved problem was applied; its
\* marker is empty and the replacement stands where the region started
C5_Fixed ==
    /\ last.op = "mark_language_problem_solved"
    /\ last.path = "fix"
    /\ last.clean
    /\ HasRegion(regions, ProblemList(problems)[last.found])
    /\ LET p == ProblemList(problems)[last.found]
           r == get_regions(regions, p.regionKey)[1]
       IN  /\ r.a = r.b
           /\ Len(p.replacements) = 1
           /\ p.replacements[1] # p.orgContent
           /\ [k \in 1..Len(p.replacements[1]) |-> buffer[r.a + k]] = p.replacements[1]

\* the step of check_text that stores the problems of a response, line 461
CheckStoredStep ==
    /\ chk.stack # <<>>
    /\ Top(chk.stack).proc = "check_text"
    /\ Top(chk.stack).pc = 461
    /\ chk'.stack = <<>>

\* the locals of the check_text that runs
Locals == chk.stack[1].v

\* C4: the problem stored for a match m of length > 0 has the offset of m
\* plus the start of the checked range and the length of m.  The start is
\* the one check_text shifts by: the start of the range that was checked,
\* 0 for the whole buffer, carried over the changes made to the buffer
\* between the request and its answer.
C4_OffsetShiftedByStart ==
    [][CheckStoredStep =>
          LET ps == ProblemList(problems')
              src == Locals.src
              start == Locals.check_region.a
          IN  /\ Len(ps) = Len(src)
              /\ \A i \in DOMAIN ps :
                     src[i].length > 0 =>
                         /\ ps[i].offset = src[i].offset + start
                         /\ ps[i].length = src[i].length
                         /\ chk.log = <<>> =>
                                start = (IF Empty(Locals.selection) THEN 0
                                         ELSE Begin(Locals.selection))]_vars

\* C4 witness: a check of a selection that does not start at 0 has stored
\* a problem for a match of length > 0, at a greater offset than the match
C4_ShiftedProblem ==
    /\ last.op = "check_text"
    /\ last.path = "stored"
    /\ last.src # <<>>
    /\ last.src[1].length > 0
    /\ ProblemList(problems)[1].offset > last.src[1].offset
    /\ ProblemList(problems)[1].length = last.src[1].length

\* C6: the payload getResponse builds holds the keys username and apiKey
\* exactly when the username and the API key are both non-empty, with
\* their values; when one of them is empty it holds neither key.
C6_CredentialsIffBoth ==
    (conn.payload.has /\ conn.call = "getResponse") =>
        LET payload == conn.payload.val
            both == conn.username # <<>> /\ conn.apikey # <<>>
        IN  /\ "username" \in DOMAIN payload <=> both
            /\ "apiKey" \in DOMAIN payload <=> both
            /\ both => (payload["username"] = conn.username
                           /\ payload["apiKey"] = conn.apikey)

\* C6 witness: a payload was built with a username and no API key, and it
\* holds neither key
C6_OnlyUsername ==
    /\ conn.payload.has
    /\ conn.call = "getResponse"
    /\ conn.username # <<>>
    /\ conn.apikey = <<>>
    /\ "username" \notin DOMAIN conn.payload.val
    /\ "apiKey" \notin DOMAIN conn.payload.val

\* the class of a failure of the transport
FailureClass(event) ==
    CASE event = "http" -> "HTTP status error"
      [] event \in {"bad_scheme", "unknown_type", "no_scheme"} -> "invalid URL"
      [] event \in {"conn_timeout", "read_timeout"} -> "connection timeout"
      [] event \in {"refused", "reset"} -> "other I/O failure"

\* the message of a class other than the HTTP status error
ClassMessage(class) ==
    CASE class = "invalid URL" -> <<"Invalid URL">>
      [] class = "connection timeout" -> <<"Connection timeout">>
      [] class = "other I/O failure" -> <<"Unknown error">>

\* C7 as stated: _connect leaves, for a failure of each of the four
\* classes, the message of that class, chosen by the class of the failure
\* that occurred, and the four messages differ; the message of an HTTP
\* status error holds the status code, the reason and the body.
C7_MessageOfFailureClass ==
    (conn.pc = "returned" /\ conn.event \in FailureEvents /\ ~conn.shown.has) =>
        /\ conn.raised = NoValue
        /\ Len(conn.queue) = 1
        /\ conn.queue[1].has
        /\ LET msg == conn.queue[1].val
           IN  IF FailureClass(conn.event) = "HTTP status error"
               THEN /\ \E i \in DOMAIN msg : msg[i] = StrCode(conn.http.code)
                    /\ \E i \in DOMAIN msg : msg[i] = conn.http.reason
                    /\ \E i \in DOMAIN msg : msg[i] = conn.http.body
                    /\ msg \notin {<<"Invalid URL">>, <<"Connection timeout">>,
                                    <<"Unknown error">>}
               ELSE msg = ClassMessage(FailureClass(conn.event))

\* the problems whose region the first selection contains
InSelection == {i \in DOMAIN PreList :
                   /\ HasRegion(Pre.regions, PreList[i])
                   /\ Contains(Pre.sel[1],
                               Span(get_regions(Pre.regions, PreList[i].regionKey)[1]))}

\* deactivate_rule has appended the rule of problem P to the ignored rules
\* and has collapsed every problem of that rule
DeactivatedWith(P) ==
    LET p == PreList[P]
    IN  /\ ignored' = Append(Pre.ignored, [id |-> p.rule, description |-> p.message])
        /\ \A j \in DOMAIN PreList :
               LET q == PreList[j]
               IN  q.rule = p.rule =>
                       (CollapsedByStep(j) /\ ~Unsolved(regions', buffer', q))

\* C8 as stated: with exactly one problem in the selection, deactivate_rule
\* appends one entry, the rule id and the message of that problem, to the
\* end of the ignored rules and leaves the other entries; afterwards every
\* tracked problem of that rule is collapsed and is not unsolved.
C8_DeactivateAppendsAndClears ==
    [][(/\ Ends("deactivate_rule")
        /\ Pre.sel # <<>>
        /\ Cardinality(InSelection) = 1) =>
          \A P \in InSelection : DeactivatedWith(P)]_vars

\* C8, what holds: the same when no check_text runs during the command.
C8_DeactivateAloneAppendsAndClears ==
    [][(/\ Ends("deactivate_rule")
        /\ RanAlone
        /\ Pre.sel # <<>>
        /\ Cardinality(InSelection) = 1) =>
          /\ last'.path = "one"
          /\ \A P \in InSelection : DeactivatedWith(P)]_vars

\* C8 witness: deactivate_rule has appended the rule of the selected
\* problem, and the two problems of that rule are collapsed
C8_RuleDeactivated ==
    /\ last.op = "deactivate_rule"
    /\ last.path = "one"
    /\ last.clean
    /\ ignored # <<>>
    /\ Len(ProblemList(problems)) = 2
    /\ \A j \in DOMAIN ProblemList(problems) :
           /\ HasRegion(regions, ProblemList(problems)[j])
           /\ LET q == ProblemList(problems)[j]
                  r == get_regions(regions, q.regionKey)[1]
              IN  q.rule = ignored[Len(ignored)].id /\ r.a = r.b
    /\ ProblemList(problems)[1].offset # ProblemList(problems)[2].offset

\* a list without its element at index i, counted from 0
WithoutIndex(list, i) ==
    [k \in 1..(Len(list) - 1) |-> IF k <= i THEN list[k] ELSE list[k + 1]]

\* C9 as stated: the choice of index i in the panel of activate_rule leaves
\* the list that was shown without its entry at index i, the other
\* entries in their order, also when entries are duplicated; cancelling
\* the panel leaves the list as it was.
C9_RemovesChosenIndex ==
    [][(panel.kind = "activate" /\ last'.op = "activate_callback") =>
          LET i == last'.found - 1
              saved == [k \in DOMAIN ignored' |->
                           <<ignored'[k].id, ignored'[k].description>>]
          IN  IF i = -1 THEN ignored' = ignored
              ELSE saved = WithoutIndex(panel.items, i)]_vars

\* no region is left on the view and no problem is stored after the step;
\* the setting that held problems is erased
AllErased ==
    /\ \A k \in DOMAIN regions' : regions'[k] = <<>>
    /\ ProblemList(problems') = <<>>
    /\ PreList # <<>> => ~problems'.has

\* C10 as stated: from every reachable state, after clear_language_problems
\* no region that a check placed is left on the view and no problem is
\* stored; the setting that held problems is erased.
C10_ClearErasesAll ==
    [][Ends("clear_language_problems") => AllErased]_vars

\* C10, what holds: when no check_text runs during the command,
\* clear_language_problems erases the regions of the stored problems and
\* the stored list; a region under a key of no stored problem stays.
C10_ClearErasesStored ==
    [][(Ends("clear_language_problems") /\ RanAlone) =>
          /\ ProblemList(problems') = <<>>
          /\ PreList # <<>> => ~problems'.has
          /\ \A k \in DOMAIN regions' :
                 IF \E i \in DOMAIN PreList : PreList[i].regionKey = k
                 THEN regions'[k] = <<>>
                 ELSE regions'[k] = Pre.regions[k]]_vars

\* C10 witness: clear_language_problems has run alone in a state with
\* tracked problems, and nothing is left
C10_Cleared ==
    /\ last.op = "clear_language_problems"
    /\ last.clean
    /\ last.found > 0
    /\ \A k \in DOMAIN regions : regions[k] = <<>>
    /\ ~problems.has

\* the span of the buffer a match flags when the text that was sent starts
\* at point start
FlaggedRegion(m, start) == Region(m.offset + start, m.offset + start + m.length)

\* a scope name at point pt matches a pattern of "ignored-scopes"
IgnoredAt(buf, pt) ==
    \E i \in DOMAIN scope_name(buf, pt) : \E j \in DOMAIN env.ignored_scopes :
        fnmatch(scope_name(buf, pt)[i], env.ignored_scopes[j])

\* the matches of a response that flag a span inside the range and not at
\* an ignored scope, in the order of the response
Surviving(resp, range, start, buf) ==
    LET keep(m) ==
            /\ Begin(range) <= FlaggedRegion(m, start).a
            /\ FlaggedRegion(m, start).b <= End(range)
            /\ ~IgnoredAt(buf, m.offset + start)
    IN  SelectSeq(resp, keep)

\* the stored list is made of the matches of list expected, one problem
\* for each in order, each under a key of its own with one region on the
\* span of its match, and the first problem is selected
StoredFrom(expected, start) ==
    LET ps == ProblemList(problems')
    IN  /\ problems'.has
        /\ Len(ps) = Len(expected)
        /\ \A i \in DOMAIN ps :
               /\ ps[i].rule = expected[i].rule.id
               /\ ps[i].message = expected[i].message
               /\ ps[i].offset = expected[i].offset + start
               /\ ps[i].length = expected[i].length
               /\ Len(regions'[ps[i].regionKey]) = 1
               /\ Span(regions'[ps[i].regionKey][1]) = FlaggedRegion(expected[i], start)
        /\ \A i, j \in DOMAIN ps : i # j => ps[i].regionKey # ps[j].regionKey
        /\ ps # <<>> => sel' = <<FlaggedRegion(expected[1], start)>>

\* C11 as stated: after a check that got a list of matches, the stored
\* problems are, in the order of the server, the matches whose span lies
\* inside the checked range and not at an ignored scope; the span of a
\* match is counted from the start of the checked range; each problem has
\* a region key of its own and the first problem is selected.
C11_StoredAreMatchesInside ==
    [][(CheckStoredStep /\ chk.inputs = 0) =>
          StoredFrom(Surviving(Locals.resp, Locals.check_region,
                               Begin(Locals.check_region), buffer),
                     Begin(Locals.check_region))]_vars

\* C11 for the span check_text gives a match, when no handler of the UI
\* thread ran during the check: the stored problems are, in the order of
\* the server, the matches whose span, counted from the first end (a) of
\* the checked region, lies inside the checked range and not at an ignored
\* scope; each has a key of its own and the first is selected.
C11_StoredAreKeptFromAnchor ==
    [][(CheckStoredStep /\ chk.inputs = 0) =>
          StoredFrom(Surviving(Locals.resp, Locals.check_region,
                               Locals.check_region.a, buffer),
                     Locals.check_region.a)]_vars

\* C11 witness: a check has stored one problem of a response of two
\* matches, the second one; the first match was at a comment
C11_SecondMatchStored ==
    /\ last.op = "check_text"
    /\ last.path = "stored"
    /\ last.clean
    /\ Len(last.resp) = 2
    /\ Len(ProblemList(problems)) = 1
    /\ ProblemList(problems)[1].rule = last.resp[2].rule.id
    /\ ProblemList(problems)[1].regionKey = "0"
    /\ last.resp[1].offset < Len(buffer)
    /\ buffer[last.resp[1].offset + 1] = "b"
    /\ sel = <<Span(regions["0"][1])>>

\* the regions of each problem that has regions are drawn outlined, with
\* the highlight scope when the problem is unsolved, with the empty scope
\* when it is solved: what recompute_highlights leaves, and leaves as it
\* is when it runs again
StyledBySolved(regs, buf, probs) ==
    \A i \in DOMAIN ProblemList(probs) :
        LET p == ProblemList(probs)[i]
        IN  \A j \in DOMAIN regs[p.regionKey] :
                /\ regs[p.regionKey][j].scope =
                       (IF Unsolved(regs, buf, p) THEN HighlightScope ELSE "")
                /\ regs[p.regionKey][j].flags = "DRAW_OUTLINED"

\* the spans of all registered regions
Spans(regs) == [k \in DOMAIN regs |-> [j \in DOMAIN regs[k] |-> Span(regs[k][j])]]

\* C12 as stated: after a modification of the buffer (on_modified), every
\* tracked problem with a region is drawn highlighted exactly when it is
\* unsolved and cleared when it is solved, the state recompute_highlights
\* leaves as it is when it runs again; every call on_modified makes leaves
\* the regions where they stand and the stored problem list as it is.
C12_RestyledBySolvedState ==
    [][/\ Ends("edit") => StyledBySolved(regions', buffer', problems')
       /\ (ui.stack # <<>> /\ ui.op = "edit" /\ ~AsyncThreadStep) =>
              (Spans(regions') = Spans(regions) /\ problems' = problems)]_vars

\* C12, what holds: the same when the async thread takes no step of a
\* check_text while on_modified runs.
C12_RestyledWhenAlone ==
    [][/\ (Ends("edit") /\ last'.clean) => StyledBySolved(regions', buffer', problems')
       /\ (ui.stack # <<>> /\ ui.op = "edit" /\ ui.clean /\ ~AsyncThreadStep) =>
              (Spans(regions') = Spans(regions) /\ problems' = problems)]_vars

\* C12 witness: the text of an unsolved problem was typed over while no
\* check_text ran; the region covers the new text and is drawn cleared
C12_ClearedAfterEdit ==
    /\ last.op = "edit"
    /\ last.clean
    /\ last.found = 0
    /\ Len(ProblemList(problems)) = 1
    /\ HasRegion(regions, ProblemList(problems)[1])
    /\ LET p == ProblemList(problems)[1]
           r == get_regions(regions, p.regionKey)[1]
       IN  /\ r.a # r.b
           /\ LiveText(r) # p.orgContent
           /\ r.scope = ""
           /\ r.flags = "DRAW_OUTLINED"

\* the step in which the transport call of check_text ends without matches
CheckFailedStep ==
    /\ Waiting
    /\ last'.op = "check_text"
    /\ last'.path = "no matches"

\* check_text took the null result as "no results": it stored no list,
\* added no highlight and queued no other call
NoResults ==
    /\ problems' = problems
    /\ regions' = regions
    /\ pending' = pending
    /\ chk'.stack = <<>>

\* getResponse returned a null result to check_text and exactly one
\* message waits to be shown
NullAndOneMessage ==
    /\ conn'.raised = NoValue
    /\ ~conn'.result.has
    /\ Len(conn'.queue) = Len(conn.queue) + 1
    /\ conn'.queue[Len(conn'.queue)].has

\* C13 as stated: a transport call that fails (HTTP status error, invalid
\* URL, timeout, other I/O failure) returns a null result and leaves
\* exactly one error message to be shown; a call that ends without a
\* failure leaves no message to be shown; check_text takes the null result
\* as no results: no list is stored, no highlight is added, nothing is
\* retried.
C13_FailureReturnsNullAndOneMessage ==
    [][CheckFailedStep =>
          /\ conn'.event \in FailureEvents => NullAndOneMessage
          /\ conn'.event \notin FailureEvents =>
                 \A i \in (Len(conn.queue) + 1)..Len(conn'.queue) : ~conn'.queue[i].has
          /\ NoResults]_vars

\* C13 for the failures an except clause of _connect handles: the call
\* returns a null result and leaves exactly one message; a URL without a
\* scheme raises ValueError through getResponse and check_text instead, and
\* leaves no message; in every case nothing is stored, highlighted or
\* retried.
C13_HandledFailureReturnsNull ==
    [][CheckFailedStep =>
          /\ (conn'.event \in FailureEvents /\ conn'.event # "no_scheme")
                 => NullAndOneMessage
          /\ conn'.event = "no_scheme" =>
                 (conn'.raised = "ValueError" /\ conn'.queue = conn.queue)
          /\ conn'.event \notin FailureEvents =>
                 \A i \in (Len(conn.queue) + 1)..Len(conn'.queue) : ~conn'.queue[i].has
          /\ NoResults]_vars

\* C13 witness: the check of a view failed with an HTTP status error, the
\* one message was shown and no problem is stored
C13_MessageShown ==
    /\ last.op = "_error"
    /\ conn.event = "http"
    /\ conn.shown.has
    /\ conn.queue = <<>>
    /\ chk.stack = <<>>
    /\ ProblemList(problems) = <<>>

\* C14: when a check was queued while another one was running, the second
\* starts after the first has returned, and when the second completes the
\* stored list is exactly the list it computed from its own response, one
\* problem for each match it kept, in order, under the keys "0", "1", ...;
\* the list the first check stored is replaced as a whole.
C14_LastCheckReplacesAll ==
    [][(CheckStoredStep /\ chk.overlap) =>
          LET ps == ProblemList(problems')
              src == Locals.src
          IN  /\ problems' = Some(Locals.problems)
              /\ Len(ps) = Len(src)
              /\ \A i \in DOMAIN ps :
                     /\ ps[i].rule = src[i].rule.id
                     /\ ps[i].message = src[i].message
                     /\ ps[i].length = src[i].length
                     /\ ps[i].regionKey = Str(i - 1)]_vars

\* C14 witness: a check that was queued while another one ran has
\* completed after it; one problem was stored when it started, and it has
\* stored the list of its own response, which holds no problem
C14_SecondOfTwoStored ==
    /\ last.op = "check_text"
    /\ last.path = "stored"
    /\ last.found = 1
    /\ last.resp = <<>>
    /\ problems = Some(<<>>)
    /\ chk.stack = <<>>
    /\ pending = <<>>

\* a region that add_highlight_region drew is under key k after the step
\* and was not before
HighlightAdded(k) ==
    /\ regions'[k] # <<>>
    /\ regions'[k][1].flags = "DRAW_NO_FILL"
    /\ regions[k] = <<>> \/ regions[k][1].flags # "DRAW_NO_FILL"

\* C15 as stated: only the transport call of a check runs off the UI
\* thread; every step that changes the stored problem list or the regions
\* of the view (clearing the old problems, adding the highlight regions,
\* storing the new list) is made on the UI thread.
C15_MutationsOnUiThread ==
    [][(problems' # problems \/ regions' # regions) => ~AsyncThreadStep]_vars

\* C15, what holds: the steps of check_text that store a problem list and
\* that add a highlight region are steps of the async thread; the UI
\* thread stores no list and adds no highlight region.
C15_CheckRunsOnAsyncThread ==
    [][/\ (problems'.has /\ problems' # problems) => AsyncThreadStep
       /\ (\E k \in DOMAIN regions : HighlightAdded(k)) => AsyncThreadStep]_vars

\* C15 witness: check_text has stored a list of problems and added their
\* regions, on the async thread
C15_StoredOnAsyncThread ==
    /\ last.op = "check_text"
    /\ last.path = "stored"
    /\ ProblemList(problems) # <<>>
    /\ regions["0"] # <<>>
    /\ regions["0"][1].flags = "DRAW_NO_FILL"

\* list is the ids, in order, with a comma between two ids
CommaJoined(list, ids) ==
    /\ Len(list) = (IF ids = <<>> THEN 0 ELSE 2 * Len(ids) - 1)
    /\ \A i \in DOMAIN ids : list[2 * i - 1] = ids[i]
    /\ \A i \in 1..(Len(ids) - 1) : list[2 * i] = ","

\* check_text reads the ignored rules (line 396) and getResponse builds the
\* request of them (line 398); the request is not changed while it is in
\* flight
RequestNamesIgnoredRules ==
    /\ (chk.stack # <<>> /\ Top(chk.stack).pc = 396 /\ AsyncThreadStep) =>
           Top(chk'.stack).v.ignored_ids = [i \in DOMAIN ignored |-> ignored[i].id]
    /\ (chk.stack # <<>> /\ Top(chk.stack).pc = 398 /\ AsyncThreadStep) =>
           CommaJoined(conn'.payload.val["disabledRules"], Locals.ignored_ids)
    /\ (Waiting /\ ~AsyncThreadStep) => conn'.payload = conn.payload

\* C16 as stated: the request of a check names the ignored rules,
\* disabledRules being their ids in list order joined by commas, and the
\* matches that come back are filtered by them: no stored problem has the
\* id of a rule that was ignored when the check started, whatever the
\* server returned.
C16_IgnoredRulesFilterBothWays ==
    [][/\ RequestNamesIgnoredRules
       /\ CheckStoredStep =>
              \A i \in DOMAIN ProblemList(problems') :
                  \A k \in DOMAIN Locals.ignored_ids :
                      ProblemList(problems')[i].rule # Locals.ignored_ids[k]]_vars

\* C16, the outgoing half: the request of a check names the ignored rules,
\* disabledRules being their ids in list order joined by commas, and the
\* request is not changed while it is in flight.
C16_RequestNamesIgnoredRules ==
    [][RequestNamesIgnoredRules]_vars

\* C16 witness: a request is in flight that names two ignored rules with
\* different ids
C16_TwoRulesDisabled ==
    /\ Waiting
    /\ conn.payload.has
    /\ Len(ignored) = 2
    /\ ignored[1].id # ignored[2].id
    /\ conn.payload.val["disabledRules"] = <<ignored[1].id, ",", ignored[2].id>>

\* the characters of text a match of the server flags
FlaggedText(text, m) ==
    [k \in 1..m.length |-> IF m.offset + k <= Len(text) THEN text[m.offset + k] ELSE "?"]

\* the start of the range a check_text checks: 0 for the whole buffer
CheckedStart == IF Empty(Locals.selection) THEN 0 ELSE Begin(Locals.selection)

\* the buffer was edited after check_text took its anchor (line 398) and
\* not otherwise during the call, and every change was made before the
\* checked text: all characters that were sent are still in the buffer
EditedBefore ==
    /\ chk.log # <<>>
    /\ chk.inputs = Len(chk.log)
    /\ \A k \in DOMAIN chk.log : chk.log[k].e <= CheckedStart

\* every match of the response is stored as a problem that covers the
\* characters the match flagged in the text that was sent
AllCovered ==
    /\ Len(ProblemList(problems')) = Len(Locals.resp)
    /\ \A i \in DOMAIN ProblemList(problems') :
           LET p == ProblemList(problems')[i]
               flagged == FlaggedText(ChunksText(Locals.check_text.annotation),
                                      Locals.resp[i])
           IN  /\ p.orgContent = flagged
               /\ regions'[p.regionKey] # <<>>
               /\ Substr(buffer', Span(regions'[p.regionKey][1])) = flagged

\* C17 as stated: when the buffer is edited while the request of a check
\* is in flight, text being inserted or deleted before the checked text,
\* the anchor taken before the request carries each returned match to the
\* current buffer once: the region of every stored problem covers the
\* characters the server flagged, and orgContent is the text that was
\* sent at [offset, offset + length).
C17_CoversFlaggedAfterEdits ==
    [][(CheckStoredStep /\ (chk.inputs = 0 \/ EditedBefore)) => AllCovered]_vars

\* C17, what holds: when no handler of the UI thread ran during the check
\* of a range selected from left to right, every match is stored, the
\* region of its problem covers the characters the server flagged, and
\* orgContent is that text.
C17_CoversFlaggedWithoutEdits ==
    [][(CheckStoredStep /\ chk.inputs = 0) => AllCovered]_vars

\* C17 witness: a check that no handler of the UI thread ran during has
\* stored a problem whose region covers one character, the one of its
\* snapshot
C17_StoredFlaggedCharacter ==
    /\ last.op = "check_text"
    /\ last.path = "stored"
    /\ last.clean
    /\ Len(ProblemList(problems)) = 1
    /\ HasRegion(regions, ProblemList(problems)[1])
    /\ LET p == ProblemList(problems)[1]
           r == regions[p.regionKey][1]
       IN  /\ r.a = last.src[1].offset
           /\ r.b = r.a + 1
           /\ p.orgContent = Substr(buffer, Span(r))
           /\ p.orgContent # <<>>

\* the problem of the suggestion panel whose callback runs
PanelProblem == IF ui.stack = <<>> THEN panel.problem[1] ELSE ui.stack[1].v.problem

\* the replacements the panel listed
PanelItems == IF ui.stack = <<>> THEN panel.items ELSE ui.stack[1].v.replacements

\* the callback of the suggestion panel ends, and no check_text was
\* running
SuggestionCallbackEnds ==
    /\ Ends("cancel_suggestion") \/ Ends("choose_suggestion")
    /\ RanAlone

\* the region of the problem of the panel is empty after the step
PanelProblemCollapsed ==
    LET key == PanelProblem.regionKey
    IN  /\ Len(regions'[key]) = 1
        /\ regions'[key][1].a = regions'[key][1].b

\* C18 as stated: when the suggestion panel of a problem with two or more
\* replacements is cancelled, the buffer is unchanged, the region of the
\* problem keeps its extent and the problem is still unsolved and
\* highlighted; when a suggestion is chosen it is inserted, the region is
\* collapsed and the callback ends without an error.
C18_CancelResolvesNothing ==
    [][SuggestionCallbackEnds =>
          IF last'.op = "cancel_suggestion"
          THEN /\ buffer' = Pre.buffer
               /\ Spans(regions') = Spans(Pre.regions)
               /\ Unsolved(regions', buffer', PanelProblem)
               /\ regions'[PanelProblem.regionKey][1].scope = HighlightScope
               /\ ~last'.err
          ELSE /\ PanelProblemCollapsed
               /\ ~last'.err]_vars

\* C18, what holds when no check_text runs during the callback: the
\* callback of the suggestion panel collapses the region of the problem
\* whether a suggestion was chosen or the panel was cancelled, and then
\* raises NameError; a cancel leaves the buffer as it was, and a choice
\* puts the chosen text in the place of the selection.  When the region
\* was erased while the panel was open, the callback raises IndexError and
\* changes nothing.
C18_CallbackCollapsesAndRaises ==
    [][SuggestionCallbackEnds =>
          /\ last'.err
          /\ IF HasRegion(Pre.regions, PanelProblem)
             THEN /\ PanelProblemCollapsed
                  /\ last'.exc = "NameError"
                  /\ last'.op = "cancel_suggestion" => buffer' = Pre.buffer
                  /\ last'.op = "choose_suggestion" =>
                         \E i \in DOMAIN PanelItems :
                             buffer' = Replaced(Pre.buffer,
                                                Region(Begin(Pre.sel[1]), End(Pre.sel[1])),
                                                PanelItems[i])
             ELSE /\ last'.exc = "IndexError"
                  /\ buffer' = Pre.buffer
                  /\ regions' = Pre.regions]_vars

\* C18 witness: the suggestion panel was cancelled; the region of its
\* problem is empty and the text the problem flagged is still in the
\* buffer
C18_CancelledAndCollapsed ==
    /\ last.op = "cancel_suggestion"
    /\ last.exc = "NameError"
    /\ last.clean
    /\ \E i \in DOMAIN ProblemList(problems) :
           /\ HasRegion(regions, ProblemList(problems)[i])
           /\ LET p == ProblemList(problems)[i]
                  r == regions[p.regionKey][1]
              IN  /\ Len(p.replacements) > 1
                  /\ r.a = r.b
                  /\ r.a < Len(buffer)
                  /\ <<buffer[r.a + 1]>> = p.orgContent

\* the problem mark_language_problem_solved found was solved when the
\* command started
FoundWasSolved ==
    /\ last'.found \in DOMAIN PreList
    /\ HasRegion(Pre.regions, PreList[last'.found])
    /\ ~Unsolved(Pre.regions, Pre.buffer, PreList[last'.found])

\* C19 as stated: mark_language_problem_solved with apply_fix = true
\* changes the buffer for an unsolved problem only; when the selection
\* coincides with the collapsed region of a problem that was ignored or
\* fixed before, no replacement is inserted.
C19_NoFixOfSolvedProblem ==
    [][(ApplyFixEnds /\ FoundWasSolved) => buffer' = Pre.buffer]_vars

\* C19, what holds when no check_text runs during the command: with
\* apply_fix = true and the selection on the region of a solved problem
\* that has one replacement, the replacement is put in the place of the
\* region, also when the region is empty; a problem with no replacement
\* leaves the buffer as it was.
C19_FixAppliesToSolvedProblem ==
    [][(ApplyFixEnds /\ FoundWasSolved) =>
          LET p == PreList[last'.found]
              r == Span(Pre.regions[p.regionKey][1])
          IN  /\ Len(p.replacements) = 1 =>
                     (last'.path = "fix of a solved problem"
                          /\ buffer' = Replaced(Pre.buffer, r, p.replacements[1]))
              /\ Len(p.replacements) # 1 => buffer' = Pre.buffer]_vars

\* C19 witness: a problem was ignored, the fix was then asked for at the
\* caret the ignore left, and the replacement was inserted there
C19_InsertedAtIgnoredProblem ==
    /\ last.op = "mark_language_problem_solved"
    /\ last.path = "fix of a solved problem"
    /\ last.clean
    /\ HasRegion(regions, ProblemList(problems)[last.found])
    /\ LET p == ProblemList(problems)[last.found]
           r == regions[p.regionKey][1]
       IN  /\ r.a = r.b
           /\ Len(buffer) >= r.a + Len(p.replacements[1]) + Len(p.orgContent)
           /\ [k \in 1..Len(p.replacements[1]) |-> buffer[r.a + k]] = p.replacements[1]
           /\ [k \in 1..Len(p.orgContent) |-> buffer[r.a + Len(p.replacements[1]) + k]]
                  = p.orgContent

\* C20 as stated: in every reachable state in which the UI thread can
\* start a command, whatever the order of check completions,
\* clear_language_problems, fixes, ignores, deactivations of rules and
\* edits of the buffer, every problem of the stored list has at least one
\* region under its region key, so that get_regions(...)[0] and the
\* assertion of is_problem_solved do not fail.
C20_StoredProblemsHaveRegions ==
    ui.stack = <<>> =>
        \A i \in DOMAIN ProblemList(problems) :
            Len(get_regions(regions, ProblemList(problems)[i].regionKey)) >= 1

\* C20, what holds: when a check_text stores its list and no handler of the
\* UI thread ran during the call, every problem of the list has a region
\* under its key.
C20_RegionsAfterCheckAlone ==
    [][(CheckStoredStep /\ chk.inputs = 0) =>
          \A i \in DOMAIN ProblemList(problems') :
              Len(get_regions(regions', ProblemList(problems')[i].regionKey)) >= 1]_vars

\* C20 witness: a check that was queued while another one ran has erased
\* the region of the problem that was stored, and has stored one problem
\* with its region, while no handler of the UI thread ran
C20_RegionAfterRecheck ==
    /\ last.op = "check_text"
    /\ last.path = "stored"
    /\ last.clean
    /\ last.found = 1
    /\ Len(ProblemList(problems)) = 1
    /\ Len(get_regions(regions, ProblemList(problems)[1].regionKey)) = 1
    /\ chk.stack = <<>>

\* the region keys of the stored problems
StoredKeys == {ProblemList(problems)[i].regionKey : i \in DOMAIN ProblemList(problems)}

\* C21 as stated: in every state in which no check_text runs (and the UI
\* thread runs no handler), every highlight region that is on the view
\* stands under the region key of a stored problem.
C21_NoOrphanRegions ==
    (chk.stack = <<>> /\ ui.stack = <<>>) =>
        \A k \in DOMAIN regions : regions[k] # <<>> => k \in StoredKeys

\* C21, what holds: when a check_text that was queued while another one
\* ran stores its list, and no handler of the UI thread ran during the
\* call, no key of the problems that were stored when it started holds a
\* region unless it is the key of a problem of the new list.
C21_NoRegionOfEarlierCheck ==
    [][(CheckStoredStep /\ chk.overlap /\ chk.inputs = 0) =>
          \A k \in Len(ProblemList(problems'))..(chk.found - 1) :
              regions'[Str(k)] = <<>>]_vars

\* C21 witness: two overlapping checks have completed, the first with one
\* problem and the second with none, and no handler of the UI thread ran
\* during the second; no region is on the view
C21_FewerProblemsNoOrphan ==
    /\ last.op = "check_text"
    /\ last.path = "stored"
    /\ last.clean
    /\ last.found = 1
    /\ StoredKeys = {}
    /\ \A k \in DOMAIN regions : regions[k] = <<>>

\* the step in which the callback of the language panel runs
LanguageCallbackStep ==
    /\ panel.kind = "language"
    /\ last'.op = "handle_language_selection"

\* C22 as stated: cancelling the language panel (index -1) leaves the
\* setting language_tool_language as it was; the setting is erased only
\* for index 0 (autodetect), and set to the long code of entry i only for
\* a valid index i >= 1.
C22_CancelKeepsLanguage ==
    [][LanguageCallbackStep =>
          LET index == last'.found
          IN  /\ index = -1 => language' = language
              /\ index = 0 => language' = NoValue
              /\ index >= 1 => language' = languages.val[index + 1][2]]_vars

\* C22, what holds: index 0 erases the setting, a valid index i >= 1 sets
\* it to the long code of entry i, and index -1, the cancel, sets it to
\* the long code of the last entry of the list.
C22_CancelSetsLastLanguage ==
    [][LanguageCallbackStep =>
          LET index == last'.found
          IN  /\ index = -1 => language' = languages.val[Len(languages.val)][2]
              /\ index = 0 => language' = NoValue
              /\ index >= 1 => language' = languages.val[index + 1][2]]_vars

\* C22 witness: the language panel listed three entries and was
\* cancelled; the setting holds the long code of the last entry
C22_CancelledPanelSetLanguage ==
    /\ last.op = "handle_language_selection"
    /\ last.found = -1
    /\ languages.has
    /\ Len(languages.val) = 3
    /\ language = languages.val[3][2]
    /\ language # "auto"

====
